---- MODULE Spec2Model ----
(***************************************************************************)
(* Model of stake-o-matic (src/src/main.rs): the block-production          *)
(* classifier classify_producers and the per-validator decision pass of    *)
(* main.                                                                   *)
(***************************************************************************)
EXTENDS Integers, Sequences, FiniteSets, TLC

(***************************************************************************)
(* Bounds of the model.                                                    *)
(***************************************************************************)
\* Number of relative slot offsets of the accounting period that the
\* generated leader schedules range over.
NumSlots == 3

(***************************************************************************)
(* Identities.  The leader schedule is keyed by strings; Pubkey::from_str  *)
(* decodes a base58 string into a key and fails on anything else.  The     *)
(* decoding is injective.  Pubkeys are modelled as numbers; the string     *)
(* "zz" does not decode.                                                   *)
(***************************************************************************)
LeaderStrings == {"l1", "l2", "zz"}

NoPubkey == 0

PubkeyFromStr(s) ==
    CASE s = "l1" -> 1
      [] s = "l2" -> 2
      [] s = "l3" -> 3
      [] s = "l4" -> 4
      [] s = "l5" -> 5
      [] OTHER -> NoPubkey

(***************************************************************************)
(* usize arithmetic.  `a - b` with b > a overflows: a debug build panics   *)
(* and a release build wraps around.  Either way no percentage comes out;  *)
(* the outcome is recorded as Overflowed.                                  *)
(***************************************************************************)
Overflowed == -1

UsizeSub(a, b) == IF b > a THEN Overflowed ELSE a - b

\* What a wrapping subtraction would give (the width is scaled down).
WrappingSub(a, b) == IF b > a THEN a - b + 65536 ELSE a - b

\* usize::saturating_sub
SaturatingSub(a, b) == IF b > a THEN 0 ELSE a - b

(***************************************************************************)
(* State.                                                                  *)
(***************************************************************************)
VARIABLES
    first_slot_in_epoch,  \* classify_producers argument
    confirmed_blocks,     \* classify_producers argument: set of slots
    leader_schedule,      \* classify_producers argument: string -> Seq(offset)
    config,               \* Config
    result,               \* what the latest call of classify_producers produced
    previous              \* what the call before it produced

classify_vars ==
    <<first_slot_in_epoch, confirmed_blocks, leader_schedule, previous>>

VARIABLES
    pc,                              \* position of main
    epoch_info,                      \* get_epoch_info()
    vote_accounts,                   \* what get_vote_accounts() answers
    vote_account_info,               \* node_pubkey string -> RpcVoteAccountInfo
    enrolled,                        \* identities stake_pool.is_enrolled accepts
    cluster_nodes_with_old_version,  \* set of node_pubkey strings
    too_many_old_validators,
    data_center_info,                \* identity -> stake_percent, as fetched
    infrastructure_concentration,    \* identity -> stake_percent, above the max
    notifications,                   \* Vec<String>
    desired_validator_stake,         \* Vec<ValidatorStake>
    remaining                        \* entries the `for` loop has yet to visit

main_vars ==
    <<pc, epoch_info, vote_accounts, vote_account_info, enrolled,
      cluster_nodes_with_old_version, too_many_old_validators,
      data_center_info, infrastructure_concentration, notifications,
      desired_validator_stake,
      remaining>>

VARIABLES
    ledger,        \* the remote allocation state the operations act on
    transactions,  \* the plan of the sweep under way: Seq of operations
    outcomes,      \* per operation of the plan so far: "Confirmed" / "Failed"
    attempts,      \* submissions of the current operation that did not land
    submitted,     \* every operation handed to the remote ledger, in order
    ok,            \* what the latest sweep returned
    sent,          \* what notifier.send was given, in order
    events         \* the steps of the run that have succeeded so far

submit_vars ==
    <<ledger, transactions, outcomes, attempts, submitted, ok, sent, events>>

VARIABLES
    slot_history,  \* the remote ledger: the confirmed slots
    cache,         \* the persisted store: slot -> confirmed
    query,         \* the latest completed query and what it cost
    earlier        \* a query completed before it

cache_vars == <<slot_history, cache, query, earlier>>

\* The registry command line tool (cli/src/main.rs).
VARIABLES
    cli_pc,                    \* position of the command
    args,                      \* the command and its arguments
    participants,              \* the registry on the ledger
    lamports,                  \* the fee payer's balance on the ledger
    fee,                       \* fee_calculator.calculate_fee(&message)
    rent,                      \* get_minimum_balance_for_rent_exemption
    additional_funds_required, \* Option<u64>
    balance,                   \* what get_balance answered, if asked
    funds_required,            \* fee + additional funds, once computed
    signatures,                \* try_sign calls that succeeded
    cli_sent,                  \* messages handed to the cluster, in order
    cli_result                 \* what the command returned, if it has

cli_vars ==
    <<cli_pc, args, participants, lamports, fee, rent,
      additional_funds_required, balance, funds_required, signatures,
      cli_sent, cli_result>>

vars ==
    <<classify_vars, config, result, main_vars, submit_vars, cli_vars, cache_vars,
      cli_vars>>

(***************************************************************************)
(* Config::default_for_test, the fields the model reads.                   *)
(***************************************************************************)
WarnAll == [kind |-> "WarnAll", list |-> {}]

DestakeAll == [kind |-> "DestakeAll", list |-> {}]

DestakeListed(list) == [kind |-> "DestakeListed", list |-> list]

\* Option<semver::Version>: versions are numbered, Some(v) is <<v>> and
\* None is the empty sequence.
None == <<>>

default_for_test ==
    [ dry_run |-> TRUE,
      quality_block_producer_percentage |-> 15,
      delinquent_grace_slot_distance |-> 21600,
      max_poor_block_producer_percentage |-> 20,
      max_commission |-> 100,
      min_release_version |-> None,
      max_old_release_version_percentage |-> 10,
      max_infrastructure_concentration |-> 100,
      infrastructure_concentration_affects |-> WarnAll,
      use_cluster_average_skip_rate |-> FALSE,
      bad_cluster_average_skip_rate |-> 50 ]

(***************************************************************************)
(* classify_producers, lines 597-671.                                      *)
(***************************************************************************)
validator_slots_distinct(relative_slots) ==
    Cardinality({relative_slots[i] : i \in DOMAIN relative_slots})

\* Inner loop, lines 612-620: validator_slots counts every list entry.
validator_slots(relative_slots) == Len(relative_slots)

RECURSIVE validator_blocks_relative(_, _, _)
validator_blocks_relative(first, confirmed, relative_slots) ==
    IF relative_slots = <<>>
    THEN 0
    ELSE (IF Head(relative_slots) \in confirmed THEN 1 ELSE 0)
         + validator_blocks_relative(first, confirmed, Tail(relative_slots))

\* Inner loop, lines 612-620: validator_blocks counts the entries whose
\* slot first_slot_in_epoch + relative_slot is in confirmed_blocks.
RECURSIVE validator_blocks(_, _, _)
validator_blocks(first, confirmed, relative_slots) ==
    IF relative_slots = <<>>
    THEN 0
    ELSE (IF first + Head(relative_slots) \in confirmed THEN 1 ELSE 0)
         + validator_blocks(first, confirmed, Tail(relative_slots))

\* Sum of f[x] over the finite set S (the loop accumulators).
RECURSIVE SumOver(_, _)
SumOver(f, S) ==
    IF S = {}
    THEN 0
    ELSE LET x == CHOOSE y \in S : TRUE
         IN  f[x] + SumOver(f, S \ {x})

\* total_slots and total_blocks after the outer loop, lines 607-627.
total_slots(schedule) ==
    SumOver([s \in DOMAIN schedule |-> validator_slots(schedule[s])],
            DOMAIN schedule)

total_blocks(first, confirmed, schedule) ==
    SumOver([s \in DOMAIN schedule |->
                validator_blocks(first, confirmed, schedule[s])],
            DOMAIN schedule)

\* Keys of the schedule with at least one slot (line 621).
WithSlots(schedule) == {s \in DOMAIN schedule : validator_slots(schedule[s]) > 0}

\* Line 622: the `?` returns Err as soon as one such key does not decode.
ParseFails(schedule) ==
    \E s \in WithSlots(schedule) : PubkeyFromStr(s) = NoPubkey

\* blocks_and_slots, lines 623-625: entry(identity).or_insert((0, 0)) and +=.
blocks_and_slots(first, confirmed, schedule) ==
    LET ids == {PubkeyFromStr(s) : s \in WithSlots(schedule)}
        of(id) == {s \in WithSlots(schedule) : PubkeyFromStr(s) = id}
    IN  [id \in ids |->
            << SumOver([s \in of(id) |->
                           validator_blocks(first, confirmed, schedule[s])],
                       of(id)),
               SumOver([s \in of(id) |-> validator_slots(schedule[s])],
                       of(id)) >>]

production_rate_of(blocks, slots) == (blocks * 100) \div slots

\* Lines 628 and 630: 100 - blocks * 100 / slots in usize arithmetic.
skip_rate_of(blocks, slots) == UsizeSub(100, (blocks * 100) \div slots)

skip_rate_floor_always_cluster(cfg, cluster_average_skip_rate) ==
    cluster_average_skip_rate

\* Lines 631-635.
skip_rate_floor_of(cfg, cluster_average_skip_rate) ==
    IF cfg.use_cluster_average_skip_rate THEN cluster_average_skip_rate ELSE 0

is_poor_or_equal(skip_rate, cfg, skip_rate_floor) ==
    SaturatingSub(skip_rate, cfg.quality_block_producer_percentage)
        >= skip_rate_floor

\* Line 636: the test that puts a validator in poor_block_producers.
is_poor(skip_rate, cfg, skip_rate_floor) ==
    SaturatingSub(skip_rate, cfg.quality_block_producer_percentage)
        > skip_rate_floor

\* Second loop, lines 629-648: the `if` branch inserts into
\* poor_block_producers, the `else` branch into quality_block_producers.
poor_block_producers_of(bs, cfg, skip_rate_floor) ==
    {id \in DOMAIN bs :
        is_poor(skip_rate_of(bs[id][1], bs[id][2]), cfg, skip_rate_floor)}

quality_block_producers_unconditional(bs, cfg, skip_rate_floor) == DOMAIN bs

quality_block_producers_of(bs, cfg, skip_rate_floor) ==
    {id \in DOMAIN bs :
        ~is_poor(skip_rate_of(bs[id][1], bs[id][2]), cfg, skip_rate_floor)}

\* Lines 650-651.
poor_percentage_of(poor, quality) ==
    (Cardinality(poor) * 100) \div (Cardinality(quality) + Cardinality(poor))

too_many_poor_or_equal(poor_block_producer_percentage, cfg) ==
    poor_block_producer_percentage >= cfg.max_poor_block_producer_percentage

\* Lines 652-653.
too_many_poor_of(poor_block_producer_percentage, cfg) ==
    poor_block_producer_percentage > cfg.max_poor_block_producer_percentage

\* The outcomes of a call.  kind is "Ok" (line 665), "Err" (line 622),
\* "panic" (division by zero, line 628 or 650) or "overflow" (a usize
\* subtraction overflowed, line 628 or 630).
Outcome(kind, quality, poor, rate, too_many) ==
    [ kind |-> kind,
      quality_block_producers |-> quality,
      poor_block_producers |-> poor,
      cluster_average_skip_rate |-> rate,
      too_many_poor_block_producers |-> too_many ]

NotCalled == Outcome("none", {}, {}, 0, FALSE)

classify_producers(first, confirmed, schedule, cfg) ==
    IF ParseFails(schedule) THEN Outcome("Err", {}, {}, 0, FALSE)
    ELSE IF total_slots(schedule) = 0 THEN Outcome("panic", {}, {}, 0, FALSE)
    ELSE
    LET bs == blocks_and_slots(first, confirmed, schedule)
        cluster_average_skip_rate ==
            skip_rate_of(total_blocks(first, confirmed, schedule),
                         total_slots(schedule))
        skip_rate(id) == skip_rate_of(bs[id][1], bs[id][2])
        skip_rate_floor == skip_rate_floor_of(cfg, cluster_average_skip_rate)
        poor == poor_block_producers_of(bs, cfg, skip_rate_floor)
        quality == quality_block_producers_of(bs, cfg, skip_rate_floor)
    IN  IF \/ cluster_average_skip_rate = Overflowed
           \/ \E id \in DOMAIN bs : skip_rate(id) = Overflowed
        THEN Outcome("overflow", {}, {}, 0, FALSE)
        ELSE IF Cardinality(quality) + Cardinality(poor) = 0
        THEN Outcome("panic", {}, {}, 0, FALSE)
        ELSE Outcome("Ok", quality, poor, cluster_average_skip_rate,
                     too_many_poor_of(poor_percentage_of(poor, quality), cfg))

(***************************************************************************)
(* Inputs of classify_producers.  A generated leader schedule gives every  *)
(* offset of the period to one key or to nobody, lists each key's offsets  *)
(* in ascending order, and may list one offset a second time.  A key with  *)
(* an empty list stands for a key absent from the map as well: the code    *)
(* treats both alike (line 621).                                           *)
(***************************************************************************)
Offsets == 0 .. (NumSlots - 1)

Nobody == "-"

RECURSIVE Ascending(_)
Ascending(S) ==
    IF S = {}
    THEN <<>>
    ELSE LET m == CHOOSE x \in S : \A y \in S : x <= y
         IN  <<m>> \o Ascending(S \ {m})

ScheduleOf(assignment, dup) ==
    [s \in LeaderStrings |->
        Ascending({o \in Offsets : assignment[o] = s})
        \o (IF dup[1] = s THEN <<dup[2]>> ELSE <<>>)]

Schedules ==
    {ScheduleOf(a, d) :
        a \in [Offsets -> LeaderStrings \cup {Nobody}],
        d \in {<<Nobody, 0>>} \cup (LeaderStrings \X Offsets)}

FirstSlots == {10}

QualityPercentages == {0, 15, 100}

MaxPoorPercentages == {20, 50}

Configs ==
    {[default_for_test EXCEPT
         !.quality_block_producer_percentage = q,
         !.max_poor_block_producer_percentage = m,
         !.use_cluster_average_skip_rate = u] :
        q \in QualityPercentages, m \in MaxPoorPercentages, u \in BOOLEAN}

(***************************************************************************)
(* The allocation backend and the submission pipeline.  stake_pool (a      *)
(* GenericStakePool) and rpc_client_utils::send_and_confirm_transactions   *)
(* are called by main; what they do is taken from sections 4.5 and 4.6 of  *)
(* the specification.                                                      *)
(***************************************************************************)
Identities == {1, 2}

\* The remote allocation of one validator: no backing account yet, or an
\* account holding no stake, the baseline stake, or baseline plus bonus.
Allocations == {"absent", "None", "Baseline", "Bonus"}

\* An operation of a plan.
Operation(kind, identity, stake_state, text) ==
    [kind |-> kind, identity |-> identity, stake_state |-> stake_state,
     memo |-> text]

RECURSIVE init_transactions(_, _)
\* stake_pool.init: the one-time setup operations, one backing account for
\* every known validator that has none.
init_transactions(stake, known) ==
    IF known = {}
    THEN <<>>
    ELSE LET id == CHOOSE x \in known : \A y \in known : x <= y
         IN  (IF stake[id] = "absent"
              THEN <<Operation("create", id, "None", <<>>)>>
              ELSE <<>>)
             \o init_transactions(stake, known \ {id})

transition_always_funds(current, d) ==
    IF current = "absent"
    THEN IF d.stake_state = "None"
         THEN <<>>
         ELSE <<Operation("create", d.identity, "None", <<>>),
                Operation("fund", d.identity, d.stake_state, d.memo)>>
    ELSE <<Operation("fund", d.identity, d.stake_state, d.memo)>>

\* The operations that take one validator from its allocation to the
\* desired one: none when it is there already.
transition(current, d) ==
    IF current = d.stake_state
    THEN <<>>
    ELSE IF current = "absent"
    THEN IF d.stake_state = "None"
         THEN <<>>
         ELSE <<Operation("create", d.identity, "None", <<>>),
                Operation("fund", d.identity, d.stake_state, d.memo)>>
    ELSE <<Operation("fund", d.identity, d.stake_state, d.memo)>>

RECURSIVE apply_transactions(_, _)
\* stake_pool.apply: the minimal plan from the observed allocation to the
\* desired one, in the order of the desired states.
apply_transactions(stake, desired) ==
    IF desired = <<>>
    THEN <<>>
    ELSE transition(stake[Head(desired).identity], Head(desired))
         \o apply_transactions(stake, Tail(desired))

\* The remote ledger accepts an operation only on the state it is made for.
Acceptable(op, stake) ==
    IF op.kind = "create"
    THEN stake[op.identity] = "absent"
    ELSE stake[op.identity] # "absent"

\* The allocation after an operation has confirmed.
Applied(stake, op) == [stake EXCEPT ![op.identity] = op.stake_state]

\* How often an operation is submitted before a transient error counts as
\* its failure.
MaxAttempts == 2

sweep_success_of_last(outs) ==
    outs = <<>> \/ outs[Len(outs)] = "Confirmed"

\* The boolean a sweep returns.
sweep_success(outs) == \A i \in DOMAIN outs : outs[i] = "Confirmed"

\* No sweep has been started.
SubmitIdle ==
    /\ ledger = [id \in Identities |-> "absent"]
    /\ transactions = <<>>
    /\ outcomes = <<>>
    /\ attempts = 0
    /\ submitted = <<>>
    /\ ok = FALSE
    /\ sent = <<>>
    /\ events = {}

(***************************************************************************)
(* The confirmed-block cache (ConfirmedBlockCache::query), section 4.1 of  *)
(* the specification.                                                      *)
(***************************************************************************)
NoQuery == [start |-> 0, end |-> 0, confirmed |-> {}, fetches |-> 0]

\* The cache has not been used.
CacheIdle ==
    /\ slot_history = {}
    /\ cache = <<>>
    /\ query = NoQuery
    /\ earlier = NoQuery

\* The command line tool is not running.
CliIdle ==
    /\ cli_pc = "idle"
    /\ args = <<>>
    /\ participants = {}
    /\ lamports = 0
    /\ fee = 0
    /\ rent = 0
    /\ additional_funds_required = <<>>
    /\ balance = <<>>
    /\ funds_required = <<>>
    /\ signatures = 0
    /\ cli_sent = <<>>
    /\ cli_result = <<>>

\* RpcVoteAccountStatus with no vote account.
NoVoteAccounts == [current |-> <<>>, delinquent |-> <<>>]

\* main is not running while classify_producers is exercised on its own.
MainIdle ==
    /\ pc = "idle"
    /\ epoch_info = [absolute_slot |-> 0, epoch |-> 0]
    /\ vote_accounts = NoVoteAccounts
    /\ vote_account_info = <<>>
    /\ enrolled = {}
    /\ cluster_nodes_with_old_version = {}
    /\ too_many_old_validators = FALSE
    /\ data_center_info = <<>>
    /\ infrastructure_concentration = <<>>
    /\ notifications = <<>>
    /\ desired_validator_stake = <<>>
    /\ remaining = {}

ClassifyInit ==
    /\ MainIdle
    /\ SubmitIdle
    /\ CacheIdle
    /\ CliIdle
    /\ previous = NotCalled
    /\ first_slot_in_epoch \in FirstSlots
    /\ confirmed_blocks \in
          SUBSET {first_slot_in_epoch + o : o \in Offsets}
    /\ leader_schedule \in Schedules
    /\ config \in Configs
    /\ result = NotCalled

\* A call of classify_producers on the inputs.
Classify ==
    /\ pc = "idle"
    /\ result.kind = "none"
    /\ result' = classify_producers(first_slot_in_epoch, confirmed_blocks,
                                    leader_schedule, config)
    /\ UNCHANGED <<classify_vars, cache_vars, cli_vars, vote_accounts,
                   submit_vars, data_center_info,
                   config, main_vars, submit_vars, cli_vars, cache_vars>>

\* A second call with the same schedule and configuration and a smaller
\* set of confirmed blocks.
ClassifyWithFewer(fewer) ==
    /\ pc = "idle"
    /\ result.kind # "none"
    /\ previous.kind = "none"
    /\ fewer \subseteq confirmed_blocks
    /\ fewer # confirmed_blocks
    /\ confirmed_blocks' = fewer
    /\ previous' = result
    /\ result' = classify_producers(first_slot_in_epoch, fewer,
                                    leader_schedule, config)
    /\ UNCHANGED <<first_slot_in_epoch, leader_schedule, config, main_vars,
                   submit_vars, cache_vars, cli_vars>>

ClassifyNext ==
    \/ Classify
    \/ \E fewer \in SUBSET confirmed_blocks : ClassifyWithFewer(fewer)

ClassifySpec == ClassifyInit /\ [][ClassifyNext]_vars

(***************************************************************************)
(* The schedule and the confirmed blocks of the unit tests, lines          *)
(* 998-1089: five leaders with ten consecutive slots each.                 *)
(***************************************************************************)
TestLeaders == <<"l1", "l2", "l3", "l4", "l5">>

TestSchedule ==
    [s \in {TestLeaders[i] : i \in 1..5} |->
        LET i == CHOOSE j \in 1..5 : TestLeaders[j] = s
        IN  [k \in 1..10 |-> 10 * (i - 1) + k - 1]]

\* test_quality_producer_with_average_skip_rate, lines 1008-1010
TestConfirmedAverage ==
    (0..8) \cup {10, 11, 12, 14, 21, 22} \cup (43..48)

\* test_quality_producer_when_all_poor, line 1044
TestConfirmedNone == {}

\* test_quality_producer_when_all_good, line 1072
TestConfirmedAll == 0..49

TestConfigs ==
    {[default_for_test EXCEPT
         !.quality_block_producer_percentage = q,
         !.max_poor_block_producer_percentage = m,
         !.use_cluster_average_skip_rate = u] :
        q \in {0, 10, 15, 100}, m \in {20, 40, 50}, u \in BOOLEAN}

TestInit ==
    /\ MainIdle
    /\ SubmitIdle
    /\ CacheIdle
    /\ CliIdle
    /\ previous = NotCalled
    /\ first_slot_in_epoch = 0
    /\ confirmed_blocks \in
          {TestConfirmedAverage, TestConfirmedNone, TestConfirmedAll}
    /\ leader_schedule = TestSchedule
    /\ config \in TestConfigs
    /\ result = NotCalled

TestSpec == TestInit /\ [][Classify]_vars

(***************************************************************************)
(* main, lines 711-992, from the notifier check to the result of the run.  *)
(* Every remote call is a step whose answer is drawn from a small          *)
(* set; a call that fails ends the run through `?`.                        *)
(***************************************************************************)
\* node_pubkey strings of the vote accounts and cluster nodes.
Nodes == {"l1", "l2"}

StakePools == {{1, 2}, {2}}

\* Line 477: dry_run unless --confirm is given.
dry_run_of(confirm) == ~confirm

MainConfigs ==
    {[default_for_test EXCEPT
         !.dry_run = dry_run_of(confirm),
         !.delinquent_grace_slot_distance = 600,
         !.max_poor_block_producer_percentage = 50,
         !.max_commission = 10,
         !.min_release_version = v,
         !.max_old_release_version_percentage = 50,
         !.max_infrastructure_concentration = 25,
         !.infrastructure_concentration_affects = a] :
        confirm \in BOOLEAN,
        v \in {None, <<2>>},
        a \in {WarnAll, DestakeAll, DestakeListed({1})}}

EpochInfos == {[absolute_slot |-> 1000, epoch |-> 3]}

\* RpcVoteAccountInfo, the fields main reads.  The first node takes every
\* combination of commission and root slot around the thresholds, the
\* second one is a validator in good standing.
VoteAccountInfos ==
    {[n \in Nodes |->
        IF n = "l1"
        THEN [commission |-> c, root_slot |-> r]
        ELSE [commission |-> 10, root_slot |-> 744]] :
        c \in {10, 11}, r \in {399, 400, 744}}

\* RpcVoteAccountStatus as get_vote_accounts() answers it: the vote account
\* of each node with the fields above, listed as delinquent when its root
\* slot lags, and a second, older vote account of the second node.
StatusOf(info) ==
    LET account(n) ==
            [node_pubkey |-> n,
             vote_pubkey |-> IF n = "l1" THEN "v1" ELSE "v2",
             last_vote |-> info[n].root_slot + 31,
             commission |-> info[n].commission,
             root_slot |-> info[n].root_slot]
        stale == [node_pubkey |-> "l2", vote_pubkey |-> "v3",
                  last_vote |-> 131, commission |-> 11, root_slot |-> 100]
    IN  IF info["l1"].root_slot < 744
        THEN [current |-> <<account("l2")>>,
              delinquent |-> <<stale, account("l1")>>]
        ELSE [current |-> <<account("l1"), account("l2")>>,
              delinquent |-> <<stale>>]

MainVoteAccounts == {StatusOf(info) : info \in VoteAccountInfos}

\* Leader schedules of the previous epoch: each node leads its own slot or
\* none.
MainSchedules ==
    {[n \in Nodes |-> IF n \in leaders
                      THEN (IF n = "l1" THEN <<0>> ELSE <<1>>)
                      ELSE <<>>] : leaders \in SUBSET Nodes}

MainFirstSlot == 500

\* The remote allocation the run finds: the second validator is funded,
\* the first one has no backing account yet.
MainLedger == [id \in Identities |-> IF id = 1 THEN "absent" ELSE "Baseline"]

MainInit ==
    /\ pc = "start"
    /\ CacheIdle
    /\ CliIdle
    /\ ledger = MainLedger
    /\ transactions = <<>>
    /\ outcomes = <<>>
    /\ attempts = 0
    /\ submitted = <<>>
    /\ ok = FALSE
    /\ sent = <<>>
    /\ events = {}
    /\ config \in MainConfigs
    /\ enrolled \in StakePools
    /\ first_slot_in_epoch = 0
    /\ confirmed_blocks = {}
    /\ leader_schedule = <<>>
    /\ previous = NotCalled
    /\ result = NotCalled
    /\ epoch_info = [absolute_slot |-> 0, epoch |-> 0]
    /\ vote_accounts \in MainVoteAccounts
    /\ vote_account_info = <<>>
    /\ cluster_nodes_with_old_version = {}
    /\ too_many_old_validators = FALSE
    /\ data_center_info = <<>>
    /\ infrastructure_concentration = <<>>
    /\ notifications = <<>>
    /\ desired_validator_stake = <<>>
    /\ remaining = {}

is_enrolled_anyone(pubkey) == TRUE

\* stake_pool.is_enrolled
is_enrolled(pubkey) == pubkey \in enrolled

\* Lines 715-723: a live run needs an active notifier.
CheckNotifier ==
    /\ pc = "start"
    /\ \E notifier_is_empty \in BOOLEAN :
          pc' = IF ~config.dry_run /\ notifier_is_empty
                THEN "exit_err"
                ELSE "get_health"
    /\ UNCHANGED <<classify_vars, cache_vars, cli_vars, vote_accounts,
                   submit_vars, data_center_info,
                   config, result, epoch_info,
                   vote_account_info, enrolled, cluster_nodes_with_old_version,
                   too_many_old_validators, infrastructure_concentration,
                   notifications, desired_validator_stake, remaining>>

after_health_ignored(healthy) == "get_epoch_info"

\* Lines 727-730: the `?` on the mapped error of get_health.
after_health(healthy) == IF healthy THEN "get_epoch_info" ELSE "exit_err"

\* Lines 727-730.
GetHealth ==
    /\ pc = "get_health"
    /\ \E healthy \in BOOLEAN :
          /\ pc' = after_health(healthy)
          /\ events' = IF healthy THEN events \cup {"healthy"} ELSE events
    /\ UNCHANGED <<classify_vars, cache_vars, cli_vars, vote_accounts,
                   data_center_info,
                   ledger, transactions, outcomes, attempts, submitted, ok,
                   sent, config, result, epoch_info,
                   vote_account_info, enrolled, cluster_nodes_with_old_version,
                   too_many_old_validators, infrastructure_concentration,
                   notifications, desired_validator_stake, remaining>>

\* Line 732.
GetEpochInfo ==
    /\ pc = "get_epoch_info"
    /\ \/ /\ epoch_info' \in EpochInfos
          /\ pc' = "get_vote_accounts"
       \/ /\ pc' = "exit_err"
          /\ UNCHANGED epoch_info
    /\ UNCHANGED <<classify_vars, cache_vars, cli_vars, vote_accounts,
                   submit_vars, data_center_info,
                   config, result,
                   vote_account_info, enrolled, cluster_nodes_with_old_version,
                   too_many_old_validators, infrastructure_concentration,
                   notifications, desired_validator_stake, remaining>>

is_more_recent_never(entry, vote_account_info_) == FALSE

\* Line 750: the vote account at hand voted after the one kept so far.
is_more_recent(entry, vote_account_info_) ==
    entry.last_vote < vote_account_info_.last_vote

\* Lines 741-753: the HashMap after the loop over the vote accounts, in
\* the order of the chain.  A node_pubkey seen for the first time is
\* inserted (or_insert_with); a later vote account replaces the entry only
\* when it voted more recently.
RECURSIVE latest_vote_account_info(_)
latest_vote_account_info(accounts) ==
    IF accounts = <<>>
    THEN <<>>
    ELSE LET front == latest_vote_account_info(
                          SubSeq(accounts, 1, Len(accounts) - 1))
             vote_account_info_ == accounts[Len(accounts)]
             key == vote_account_info_.node_pubkey
         IN  IF key \notin DOMAIN front
             THEN front @@ (key :> vote_account_info_)
             ELSE IF is_more_recent(front[key], vote_account_info_)
                  THEN [front EXCEPT ![key] = vote_account_info_]
                  ELSE front

\* Lines 735-759: one RpcVoteAccountInfo per node_pubkey, out of
\* current.into_iter().chain(delinquent.into_iter()).
GetVoteAccounts ==
    /\ pc = "get_vote_accounts"
    /\ \/ /\ vote_account_info' =
                latest_vote_account_info(
                    vote_accounts.current \o vote_accounts.delinquent)
          /\ pc' = "init"
       \/ /\ pc' = "exit_err"
          /\ UNCHANGED vote_account_info
    /\ UNCHANGED <<classify_vars, cache_vars, cli_vars, vote_accounts,
                   submit_vars, data_center_info,
                   config, result, epoch_info,
                   enrolled, cluster_nodes_with_old_version,
                   too_many_old_validators, infrastructure_concentration,
                   notifications, desired_validator_stake, remaining>>

\* Lines 761-772: stake_pool.init on the identities of the vote accounts;
\* an Err ends the run.
InitStakePool ==
    /\ pc = "init"
    /\ \/ /\ transactions' =
                init_transactions(
                    ledger,
                    {id \in {PubkeyFromStr(n) : n \in DOMAIN vote_account_info} :
                        is_enrolled(id)})
          /\ outcomes' = <<>>
          /\ attempts' = 0
          /\ events' = events \cup {"init_planned"}
          /\ pc' = "init_sweep"
       \/ /\ pc' = "exit_err"
          /\ UNCHANGED <<transactions, outcomes, attempts, events>>
    /\ UNCHANGED <<classify_vars, cache_vars, cli_vars, vote_accounts,
                   data_center_info,
                   ledger, submitted, ok, sent, config, result, epoch_info,
                   vote_account_info, enrolled, cluster_nodes_with_old_version,
                   too_many_old_validators, infrastructure_concentration,
                   notifications, desired_validator_stake, remaining>>

sweep_dry_run_never == FALSE

\* Lines 775 and 976: the dry_run argument of both sweeps.
sweep_dry_run == config.dry_run

(***************************************************************************)
(* send_and_confirm_transactions, called at lines 773-779 and 974-980.     *)
(***************************************************************************)
Sweeping == pc \in {"init_sweep", "apply_sweep"}

Swept == IF pc = "init_sweep" THEN "init_swept" ELSE "apply_swept"

\* Where main goes on when the sweep returns Ok(..).
AfterSweep == IF pc = "init_sweep" THEN "check_init" ELSE "notify"

\* The notifications argument: a scratch vector at line 778, main's
\* notifications at line 979.
Surfaced(text) ==
    IF pc = "apply_sweep" /\ text # <<>>
    THEN Append(notifications, text)
    ELSE notifications

failure_memo(op) == <<op.identity, "Failed", op.kind>>

\* A dry run logs the operations and returns success without contacting
\* the remote ledger.
DryRunSweep ==
    /\ Sweeping
    /\ sweep_dry_run
    /\ ok' = TRUE
    /\ events' = events \cup {Swept}
    /\ pc' = AfterSweep
    /\ UNCHANGED <<classify_vars, cache_vars, cli_vars, vote_accounts,
                   data_center_info,
                   ledger, transactions, outcomes, attempts, submitted,
                   sent, config, result, epoch_info,
                   vote_account_info, enrolled, cluster_nodes_with_old_version,
                   too_many_old_validators, infrastructure_concentration,
                   notifications, desired_validator_stake, remaining>>

\* A live sweep checks the balance of the authority before it submits
\* anything; too little is an Err, which main propagates with `?`.
InsufficientFunds ==
    /\ Sweeping
    /\ ~sweep_dry_run
    /\ outcomes = <<>>
    /\ attempts = 0
    /\ pc' = "exit_err"
    /\ UNCHANGED <<classify_vars, cache_vars, cli_vars, vote_accounts,
                   submit_vars, data_center_info,
                   config, result, epoch_info,
                   vote_account_info, enrolled, cluster_nodes_with_old_version,
                   too_many_old_validators, infrastructure_concentration,
                   notifications, desired_validator_stake, remaining>>

next_operation_until_failure(outs) ==
    IF \E i \in DOMAIN outs : outs[i] = "Failed"
    THEN Len(transactions) + 1
    ELSE Len(outs) + 1

\* The operation a live sweep submits next: the first one without outcome.
next_operation(outs) == Len(outs) + 1

\* One submission of the next operation of a live sweep.  It confirms, or
\* fails transiently (and is submitted again, MaxAttempts times at most),
\* or is rejected for good; either of the last two ends as the failure of
\* this operation, and the sweep goes on with the next one.
SubmitNext ==
    /\ Sweeping
    /\ ~sweep_dry_run
    /\ next_operation(outcomes) \in DOMAIN transactions
    /\ LET op == transactions[next_operation(outcomes)]
       IN  /\ submitted' =
                 IF attempts = 0 THEN Append(submitted, op) ELSE submitted
           /\ \E answer \in
                  (IF Acceptable(op, ledger) THEN {"confirmed"} ELSE {})
                    \cup {"transient", "rejected"} :
                 CASE answer = "confirmed" ->
                        /\ ledger' = Applied(ledger, op)
                        /\ outcomes' = Append(outcomes, "Confirmed")
                        /\ attempts' = 0
                        /\ notifications' = Surfaced(op.memo)
                   [] answer = "transient" /\ attempts + 1 < MaxAttempts ->
                        /\ attempts' = attempts + 1
                        /\ UNCHANGED <<ledger, outcomes, notifications>>
                   [] OTHER ->
                        /\ outcomes' = Append(outcomes, "Failed")
                        /\ attempts' = 0
                        /\ notifications' = Surfaced(failure_memo(op))
                        /\ UNCHANGED ledger
    /\ UNCHANGED <<classify_vars, cache_vars, cli_vars, vote_accounts,
                   data_center_info,
                   transactions, ok, sent, events, pc,
                   config, result, epoch_info,
                   vote_account_info, enrolled, cluster_nodes_with_old_version,
                   too_many_old_validators, infrastructure_concentration,
                   desired_validator_stake, remaining>>

\* Every operation of a live sweep has its outcome: the sweep returns.
SweepReturn ==
    /\ Sweeping
    /\ ~sweep_dry_run
    /\ next_operation(outcomes) \notin DOMAIN transactions
    /\ ok' = sweep_success(outcomes)
    /\ events' = events \cup {Swept}
    /\ pc' = AfterSweep
    /\ UNCHANGED <<classify_vars, cache_vars, cli_vars, vote_accounts,
                   data_center_info,
                   ledger, transactions, outcomes, attempts, submitted,
                   sent, config, result, epoch_info,
                   vote_account_info, enrolled, cluster_nodes_with_old_version,
                   too_many_old_validators, infrastructure_concentration,
                   notifications, desired_validator_stake, remaining>>

after_init_ignored(sweep_ok) == "get_cluster_nodes"

\* Lines 773-781: the `if !...` around the init sweep.
after_init(sweep_ok) == IF ~sweep_ok THEN "exit_err" ELSE "get_cluster_nodes"

\* Lines 773-781: a sweep that reports failure ends the run.
CheckInit ==
    /\ pc = "check_init"
    /\ pc' = after_init(ok)
    /\ UNCHANGED <<classify_vars, cache_vars, cli_vars, vote_accounts,
                   submit_vars, data_center_info,
                   config, result, epoch_info,
                   vote_account_info, enrolled, cluster_nodes_with_old_version,
                   too_many_old_validators, infrastructure_concentration,
                   notifications, desired_validator_stake, remaining>>

\* The filter_map of lines 787-800 on one RpcContactInfo.
is_old_version(node, version, min_release_version) ==
    /\ PubkeyFromStr(node) # NoPubkey
    /\ is_enrolled(PubkeyFromStr(node))
    /\ version # None
    /\ version[1] < min_release_version[1]

\* Lines 783-803.
GetClusterNodes ==
    /\ pc = "get_cluster_nodes"
    /\ IF config.min_release_version = None
       THEN /\ cluster_nodes_with_old_version' = {}
            /\ pc' = "classify"
       ELSE \/ \E version \in [Nodes -> {None, <<1>>, <<2>>}] :
                 /\ cluster_nodes_with_old_version' =
                       {n \in Nodes :
                          is_old_version(n, version[n],
                                         config.min_release_version)}
                 /\ pc' = "classify"
            \/ /\ pc' = "exit_err"
               /\ UNCHANGED cluster_nodes_with_old_version
    /\ UNCHANGED <<classify_vars, cache_vars, cli_vars, vote_accounts,
                   submit_vars, data_center_info,
                   config, result, epoch_info,
                   vote_account_info, enrolled,
                   too_many_old_validators, infrastructure_concentration,
                   notifications, desired_validator_stake, remaining>>

\* Lines 812-820 and classify_block_producers, lines 674-709: the remote
\* calls give the schedule and the confirmed blocks of the previous epoch;
\* an Err of classify_producers (or of a call before it) ends the run, and
\* so does its panic.
ClassifyBlockProducers ==
    /\ pc = "classify"
    /\ \/ \E schedule \in MainSchedules,
             confirmed \in SUBSET {MainFirstSlot, MainFirstSlot + 1} :
            LET r == classify_producers(MainFirstSlot, confirmed, schedule,
                                        config)
            IN  IF r.kind = "Ok"
                THEN result' = r /\ pc' = "check_rates"
                ELSE /\ UNCHANGED result
                     /\ pc' = IF r.kind = "Err" THEN "exit_err" ELSE "panicked"
       \/ /\ pc' = "exit_err"
          /\ UNCHANGED result
    /\ UNCHANGED <<classify_vars, cache_vars, cli_vars, vote_accounts,
                   submit_vars, data_center_info,
                   config, epoch_info,
                   vote_account_info, enrolled, cluster_nodes_with_old_version,
                   too_many_old_validators, infrastructure_concentration,
                   notifications, desired_validator_stake, remaining>>

too_many_old_rounded_up(old, poor, quality, cfg) ==
    Cardinality(old)
      > ((Cardinality(poor) + Cardinality(quality))
           * cfg.max_old_release_version_percentage + 99) \div 100

\* Lines 836-839.
too_many_old_validators_of(old, poor, quality, cfg) ==
    Cardinality(old)
      > ((Cardinality(poor) + Cardinality(quality))
           * cfg.max_old_release_version_percentage) \div 100

\* Lines 822-846.
CheckRates ==
    /\ pc = "check_rates"
    /\ too_many_old_validators' =
          too_many_old_validators_of(cluster_nodes_with_old_version,
                                     result.poor_block_producers,
                                     result.quality_block_producers, config)
    /\ notifications' =
          (IF result.cluster_average_skip_rate
                > config.bad_cluster_average_skip_rate
           THEN <<<<"Cluster average skip rate is above threshold">>>>
           ELSE <<>>)
          \o (IF result.too_many_poor_block_producers
              THEN <<<<"Over max of validators classified as poor block producers">>>>
              ELSE <<>>)
          \o (IF too_many_old_validators'
              THEN <<<<"Over max of validators classified as running an older release">>>>
              ELSE <<>>)
    /\ pc' = "get_data_center_info"
    /\ UNCHANGED <<classify_vars, cache_vars, cli_vars, vote_accounts,
                   submit_vars, data_center_info,
                   config, result, epoch_info,
                   vote_account_info, enrolled, cluster_nodes_with_old_version,
                   infrastructure_concentration,
                   desired_validator_stake, remaining>>

is_concentrated_or_equal(stake_percent, cfg) ==
    stake_percent >= cfg.max_infrastructure_concentration

\* Line 855.
is_concentrated(stake_percent, cfg) ==
    stake_percent > cfg.max_infrastructure_concentration

\* Lines 848-863: the data centers whose stake_percent is above the
\* maximum, flattened into identity -> stake_percent.  An Err of
\* data_center_info::get() gives the empty map.
GetDataCenterInfo ==
    /\ pc = "get_data_center_info"
    /\ \E stake_percent \in [Identities -> {25, 26}] :
          /\ data_center_info' = stake_percent
          /\ infrastructure_concentration' =
                [id \in {i \in Identities :
                            is_concentrated(stake_percent[i], config)}
                    |-> stake_percent[id]]
    /\ remaining' = DOMAIN vote_account_info
    /\ pc' = "decide"
    /\ UNCHANGED <<classify_vars, cache_vars, cli_vars, vote_accounts,
                   submit_vars,
                   config, result, epoch_info,
                   vote_account_info, enrolled, cluster_nodes_with_old_version,
                   too_many_old_validators, notifications,
                   desired_validator_stake>>

\* The strings the run produces about one validator are format!() texts
\* that carry its identity: the pair of the identity and the wording.  The
\* strings about the whole cluster are the wording alone.
destake_memo(validator_id) ==
    <<validator_id, "infrastructure concentration is too high. Removed stake">>

warning_memo(validator_id) ==
    <<validator_id,
      "infrastructure concentration is too high. No stake removed">>

memo_listed_warns(affects, validator_id) ==
    IF affects.kind = "DestakeAll"
    THEN [kind |-> "Destake", memo |-> destake_memo(validator_id)]
    ELSE [kind |-> "Warn", memo |-> warning_memo(validator_id)]

\* InfrastructureConcentrationAffects::memo, lines 75-108.
memo(affects, validator_id) ==
    CASE affects.kind = "DestakeAll" ->
            [kind |-> "Destake", memo |-> destake_memo(validator_id)]
      [] affects.kind = "WarnAll" ->
            [kind |-> "Warn", memo |-> warning_memo(validator_id)]
      [] affects.kind = "DestakeListed" ->
            IF validator_id \in affects.list
            THEN [kind |-> "Destake", memo |-> destake_memo(validator_id)]
            ELSE [kind |-> "Warn", memo |-> warning_memo(validator_id)]

\* Lines 879-887: None when the identity is not in the map.
affect_of(node_pubkey) ==
    IF node_pubkey \in DOMAIN infrastructure_concentration
    THEN memo(config.infrastructure_concentration_affects, node_pubkey)
    ELSE [kind |-> "None", memo |-> <<>>]

NoOperation == [some |-> FALSE, stake_state |-> "", memo |-> <<>>]

Some(stake_state, text) ==
    [some |-> TRUE, stake_state |-> stake_state, memo |-> text]

\* The rest of the chain, lines 914-953.
operation_by_slot_and_class(node_pubkey, root_slot) ==
    IF root_slot
         < SaturatingSub(epoch_info.absolute_slot,
                         config.delinquent_grace_slot_distance)
    THEN Some("None", <<node_pubkey, "is delinquent">>)
    ELSE IF root_slot < SaturatingSub(epoch_info.absolute_slot, 256)
    THEN NoOperation
    ELSE IF node_pubkey \in result.quality_block_producers
    THEN Some("Bonus", <<node_pubkey, "was a quality block producer">>)
    ELSE IF node_pubkey \in result.poor_block_producers
    THEN IF result.too_many_poor_block_producers
         THEN NoOperation
         ELSE Some("Baseline", <<node_pubkey, "was a poor block producer">>)
    ELSE Some("Baseline", <<node_pubkey, "is current">>)

operation_quality_first(node_pubkey_str, node_pubkey, affect) ==
    LET vai == vote_account_info[node_pubkey_str]
    IN  IF affect.kind = "Destake"
        THEN Some("None", affect.memo)
        ELSE IF node_pubkey \in result.quality_block_producers
        THEN Some("Bonus", <<node_pubkey, "was a quality block producer">>)
        ELSE IF vai.commission > config.max_commission
        THEN Some("None", <<node_pubkey, "commission is too high">>)
        ELSE IF /\ ~too_many_old_validators
                /\ node_pubkey_str \in cluster_nodes_with_old_version
        THEN Some("None", <<node_pubkey, "is running an old software release">>)
        ELSE operation_by_slot_and_class(node_pubkey, vai.root_slot)

operation_warn_destakes(node_pubkey_str, node_pubkey, affect) ==
    LET vai == vote_account_info[node_pubkey_str]
    IN  IF affect.kind \in {"Destake", "Warn"}
        THEN Some("None", affect.memo)
        ELSE IF vai.commission > config.max_commission
        THEN Some("None", <<node_pubkey, "commission is too high">>)
        ELSE IF /\ ~too_many_old_validators
                /\ node_pubkey_str \in cluster_nodes_with_old_version
        THEN Some("None", <<node_pubkey, "is running an old software release">>)
        ELSE operation_by_slot_and_class(node_pubkey, vai.root_slot)

\* `operation`, lines 896-953.
operation_of(node_pubkey_str, node_pubkey, affect) ==
    LET vai == vote_account_info[node_pubkey_str]
    IN  IF affect.kind = "Destake"
        THEN Some("None", affect.memo)
        ELSE IF vai.commission > config.max_commission
        THEN Some("None", <<node_pubkey, "commission is too high">>)
        ELSE IF /\ ~too_many_old_validators
                /\ node_pubkey_str \in cluster_nodes_with_old_version
        THEN Some("None", <<node_pubkey, "is running an old software release">>)
        ELSE operation_by_slot_and_class(node_pubkey, vai.root_slot)

\* One iteration of the loop of lines 866-966, on an entry not yet visited
\* (the entries come out of a HashMap, in any order).
DecideNext(node_pubkey_str) ==
    /\ pc = "decide"
    /\ node_pubkey_str \in remaining
    /\ remaining' = remaining \ {node_pubkey_str}
    /\ LET node_pubkey == PubkeyFromStr(node_pubkey_str)
           affect == affect_of(node_pubkey)
           operation == operation_of(node_pubkey_str, node_pubkey, affect)
       IN  IF ~is_enrolled(node_pubkey)
           THEN UNCHANGED <<notifications, desired_validator_stake>>
           ELSE /\ notifications' =
                     IF affect.kind = "Warn"
                     THEN Append(notifications, affect.memo)
                     ELSE notifications
                /\ desired_validator_stake' =
                     IF operation.some
                     THEN Append(desired_validator_stake,
                                 [identity |-> node_pubkey,
                                  stake_state |-> operation.stake_state,
                                  memo |-> operation.memo])
                     ELSE desired_validator_stake
    /\ UNCHANGED <<classify_vars, cache_vars, cli_vars, vote_accounts,
                   submit_vars, data_center_info,
                   config, result, pc, epoch_info,
                   vote_account_info, enrolled, cluster_nodes_with_old_version,
                   too_many_old_validators, infrastructure_concentration>>

\* The loop ends; line 968 is next.
EndDecide ==
    /\ pc = "decide"
    /\ remaining = {}
    /\ pc' = "apply"
    /\ UNCHANGED <<classify_vars, cache_vars, cli_vars, vote_accounts,
                   submit_vars, data_center_info,
                   config, result, epoch_info,
                   vote_account_info, enrolled, cluster_nodes_with_old_version,
                   too_many_old_validators, infrastructure_concentration,
                   notifications, desired_validator_stake, remaining>>

\* Lines 968-972: stake_pool.apply; an Err ends the run.
Apply ==
    /\ pc = "apply"
    /\ \/ /\ transactions' =
                apply_transactions(ledger, desired_validator_stake)
          /\ outcomes' = <<>>
          /\ attempts' = 0
          /\ events' = events \cup {"apply_planned"}
          /\ pc' = "apply_sweep"
       \/ /\ pc' = "exit_err"
          /\ UNCHANGED <<transactions, outcomes, attempts, events>>
    /\ UNCHANGED <<classify_vars, cache_vars, cli_vars, vote_accounts,
                   data_center_info,
                   ledger, submitted, ok, sent, config, result, epoch_info,
                   vote_account_info, enrolled, cluster_nodes_with_old_version,
                   too_many_old_validators, infrastructure_concentration,
                   notifications, desired_validator_stake, remaining>>

all_but_last(notes) ==
    IF notes = <<>> THEN <<>> ELSE SubSeq(notes, 1, Len(notes) - 1)

\* Lines 982-984: the notifications the `for` loop goes through.
to_send(notes) == notes

\* Lines 982-985.
SendNotifications ==
    /\ pc = "notify"
    /\ sent' = sent \o to_send(notifications)
    /\ pc' = "exit"
    /\ UNCHANGED <<classify_vars, cache_vars, cli_vars, vote_accounts,
                   data_center_info,
                   ledger, transactions, outcomes, attempts, submitted, ok,
                   events, config, result, epoch_info,
                   vote_account_info, enrolled, cluster_nodes_with_old_version,
                   too_many_old_validators, infrastructure_concentration,
                   notifications, desired_validator_stake, remaining>>

exit_always_ok(sweep_ok) == "exit_ok"

\* Lines 987-991.
exit_of(sweep_ok) == IF ~sweep_ok THEN "exit_err" ELSE "exit_ok"

Exit ==
    /\ pc = "exit"
    /\ pc' = exit_of(ok)
    /\ UNCHANGED <<classify_vars, cache_vars, cli_vars, vote_accounts,
                   submit_vars, data_center_info,
                   config, result, epoch_info,
                   vote_account_info, enrolled, cluster_nodes_with_old_version,
                   too_many_old_validators, infrastructure_concentration,
                   notifications, desired_validator_stake, remaining>>

Next ==
    \/ CheckNotifier
    \/ GetHealth
    \/ GetEpochInfo
    \/ GetVoteAccounts
    \/ InitStakePool
    \/ DryRunSweep
    \/ InsufficientFunds
    \/ SubmitNext
    \/ SweepReturn
    \/ CheckInit
    \/ GetClusterNodes
    \/ ClassifyBlockProducers
    \/ CheckRates
    \/ GetDataCenterInfo
    \/ \E node_pubkey_str \in Nodes : DecideNext(node_pubkey_str)
    \/ EndDecide
    \/ Apply
    \/ SendNotifications
    \/ Exit

Spec == MainInit /\ [][Next]_vars

(***************************************************************************)
(* The apply sweep on its own: main from line 968 on, for every remote     *)
(* allocation and every list of desired states of two validators.          *)
(***************************************************************************)
DesiredStates == {"None", "Baseline", "Bonus"}

ValidatorStake(identity, stake_state) ==
    [identity |-> identity, stake_state |-> stake_state,
     memo |-> <<identity, "is current">>]

\* At most one desired state per validator.
DesiredStakes ==
    {d1 \o d2 :
        d1 \in {<<>>} \cup {<<ValidatorStake(1, s)>> : s \in DesiredStates},
        d2 \in {<<>>} \cup {<<ValidatorStake(2, s)>> : s \in DesiredStates}}

SubmitInit ==
    /\ pc = "apply"
    /\ CacheIdle
    /\ CliIdle
    /\ config \in {[default_for_test EXCEPT !.dry_run = d] : d \in BOOLEAN}
    /\ enrolled = Identities
    /\ first_slot_in_epoch = 0
    /\ confirmed_blocks = {}
    /\ leader_schedule = <<>>
    /\ previous = NotCalled
    /\ result = NotCalled
    /\ epoch_info = [absolute_slot |-> 0, epoch |-> 0]
    /\ vote_accounts = NoVoteAccounts
    /\ vote_account_info = <<>>
    /\ cluster_nodes_with_old_version = {}
    /\ too_many_old_validators = FALSE
    /\ data_center_info = <<>>
    /\ infrastructure_concentration = <<>>
    /\ notifications = <<>>
    /\ desired_validator_stake \in DesiredStakes
    /\ remaining = {}
    /\ ledger \in [Identities -> {"absent", "None", "Baseline"}]
    /\ transactions = <<>>
    /\ outcomes = <<>>
    /\ attempts = 0
    /\ submitted = <<>>
    /\ ok = FALSE
    /\ sent = <<>>
    /\ events = {"healthy", "init_planned", "init_swept"}

SubmitStep ==
    \/ Apply
    \/ DryRunSweep
    \/ InsufficientFunds
    \/ SubmitNext
    \/ SweepReturn
    \/ SendNotifications
    \/ Exit

SubmitSpec == SubmitInit /\ [][SubmitStep]_vars

(***************************************************************************)
(* What the claims about classify_producers speak of, stated on the        *)
(* inputs of the call.                                                     *)
(***************************************************************************)
Called == pc = "idle" /\ result.kind # "none"

ReturnedOk == pc = "idle" /\ result.kind = "Ok"

\* Entries of the list of key s, and those whose slot is confirmed.
Assigned(s) == Cardinality(DOMAIN leader_schedule[s])

Produced(s) ==
    Cardinality({i \in DOMAIN leader_schedule[s] :
        (first_slot_in_epoch + leader_schedule[s][i]) \in confirmed_blocks})

AssignedKeys == {s \in DOMAIN leader_schedule : Assigned(s) > 0}

IdentitiesWithSlots == {PubkeyFromStr(s) : s \in AssignedKeys}

AllEntries ==
    UNION {{<<s, i>> : i \in DOMAIN leader_schedule[s]} :
              s \in DOMAIN leader_schedule}

ProducedEntries ==
    {e \in AllEntries :
        (first_slot_in_epoch + leader_schedule[e[1]][e[2]]) \in confirmed_blocks}

SkipRate(s) == 100 - ((Produced(s) * 100) \div Assigned(s))

Max0(x) == IF x > 0 THEN x ELSE 0

PoorPercentage ==
    (100 * Cardinality(result.poor_block_producers))
    \div (Cardinality(result.poor_block_producers)
          + Cardinality(result.quality_block_producers))

\* C1: whenever classify_producers returns Ok, the quality set and the poor
\* set are disjoint, their union is exactly the set of identities with at
\* least one assigned slot, and their sizes sum to the number of those.
C1_Partition ==
    ReturnedOk =>
        /\ result.quality_block_producers \cap result.poor_block_producers = {}
        /\ result.quality_block_producers \cup result.poor_block_producers
             = IdentitiesWithSlots
        /\ Cardinality(result.quality_block_producers)
             + Cardinality(result.poor_block_producers)
             = Cardinality(IdentitiesWithSlots)

\* C1 witness: an Ok classification with a quality validator, a poor
\* validator and a key of the schedule that has no slot.
C1_Witness ==
    /\ ReturnedOk
    /\ result.quality_block_producers # {}
    /\ result.poor_block_producers # {}
    /\ \E s \in DOMAIN leader_schedule : Assigned(s) = 0

\* C2: a validator with assigned slots is in the poor set iff
\* max(0, skip_rate - quality_block_producer_percentage) > skip_rate_floor,
\* with skip_rate = 100 - produced * 100 / assigned and skip_rate_floor the
\* cluster average when use_cluster_average_skip_rate is set and 0
\* otherwise; every other such validator is in the quality set.
C2_SkipRateFloor ==
    IF config.use_cluster_average_skip_rate
    THEN result.cluster_average_skip_rate
    ELSE 0

C2_PoorIff ==
    ReturnedOk =>
        \A s \in AssignedKeys :
            LET poor == Max0(SkipRate(s)
                             - config.quality_block_producer_percentage)
                        > C2_SkipRateFloor
            IN  /\ PubkeyFromStr(s) \in result.poor_block_producers <=> poor
                /\ PubkeyFromStr(s) \in result.quality_block_producers <=> ~poor

\* C2 witness: with the cluster-relative floor on, one validator is poor
\* and another one, whose skip rate is below the threshold percentage, is
\* of quality.
C2_Witness ==
    /\ ReturnedOk
    /\ config.use_cluster_average_skip_rate
    /\ \E s \in AssignedKeys :
          PubkeyFromStr(s) \in result.poor_block_producers
    /\ \E s \in AssignedKeys :
          /\ PubkeyFromStr(s) \in result.quality_block_producers
          /\ SkipRate(s) < config.quality_block_producer_percentage

\* C3: too_many_poor is true iff 100 * |poor| / (|poor| + |quality|) is
\* strictly greater than max_poor_block_producer_percentage.
C3_TooManyPoorIff ==
    ReturnedOk =>
        (result.too_many_poor_block_producers
            <=> PoorPercentage > config.max_poor_block_producer_percentage)

\* C3 witness: the poor percentage equals the ceiling and the flag is off.
C3_Witness ==
    /\ ReturnedOk
    /\ result.poor_block_producers # {}
    /\ PoorPercentage = config.max_poor_block_producer_percentage
    /\ ~result.too_many_poor_block_producers

\* C4: when every validator's confirmed-block count equals its
\* assigned-slot count, the classification that classify_producers
\* returns has an empty poor set and too_many_poor = false, whatever the
\* configuration.
C4_AllProduced == \A s \in DOMAIN leader_schedule : Produced(s) = Assigned(s)

C4_AllGood ==
    (ReturnedOk /\ C4_AllProduced) =>
        /\ result.poor_block_producers = {}
        /\ result.quality_block_producers = IdentitiesWithSlots
        /\ ~result.too_many_poor_block_producers

\* C4 witness: two validators with slots, all confirmed, the
\* cluster-relative floor on.
C4_Witness ==
    /\ ReturnedOk
    /\ C4_AllProduced
    /\ Cardinality(IdentitiesWithSlots) >= 2
    /\ config.use_cluster_average_skip_rate

\* C5 as stated: when the confirmed-block set is empty, every validator
\* with an assigned slot is poor and the quality set is empty, for every
\* configuration, and too_many_poor is true whenever the poor percentage
\* is above the ceiling.
C5_AllPoorAnyConfig ==
    (ReturnedOk /\ confirmed_blocks = {}) =>
        /\ result.poor_block_producers = IdentitiesWithSlots
        /\ result.quality_block_producers = {}
        /\ (PoorPercentage > config.max_poor_block_producer_percentage
               => result.too_many_poor_block_producers)

\* C5 amended: when the confirmed-block set is empty, the cluster-relative
\* floor is off and quality_block_producer_percentage is below 100, every
\* validator with an assigned slot is poor, the quality set is empty, and
\* too_many_poor is true whenever the poor percentage (then 100) is above
\* the ceiling.
C5_AllPoor ==
    (/\ ReturnedOk
     /\ confirmed_blocks = {}
     /\ ~config.use_cluster_average_skip_rate
     /\ config.quality_block_producer_percentage < 100) =>
        /\ result.poor_block_producers = IdentitiesWithSlots
        /\ result.quality_block_producers = {}
        /\ PoorPercentage = 100
        /\ (PoorPercentage > config.max_poor_block_producer_percentage
               => result.too_many_poor_block_producers)

\* C5 witness: no confirmed block, floor off, two validators with slots,
\* both poor, too_many_poor set.
C5_Witness ==
    /\ ReturnedOk
    /\ confirmed_blocks = {}
    /\ ~config.use_cluster_average_skip_rate
    /\ config.quality_block_producer_percentage < 100
    /\ Cardinality(result.poor_block_producers) >= 2
    /\ result.too_many_poor_block_producers

\* C6: when no validator of the schedule has an assigned slot,
\* classify_producers ends by returning an error value to its caller.
C6_NoSlots == \A s \in DOMAIN leader_schedule : Assigned(s) = 0

C6_EmptyScheduleIsErr ==
    (Called /\ C6_NoSlots) => result.kind = "Err"

\* C7: with the schedule fixed, a call on a subset of the confirmed blocks
\* of an earlier call returns a cluster_average_skip_rate at least as
\* large as the earlier call's.
C7_BothOk == pc = "idle" /\ previous.kind = "Ok" /\ result.kind = "Ok"

C7_Monotone ==
    C7_BothOk =>
        result.cluster_average_skip_rate >= previous.cluster_average_skip_rate

\* C7 witness: the second call, on fewer confirmed blocks, returned a
\* strictly larger rate.
C7_Witness ==
    /\ C7_BothOk
    /\ result.cluster_average_skip_rate > previous.cluster_average_skip_rate

\* C8: with at least one assigned slot (and every key with slots
\* decoding), classify_producers returns Ok with cluster_average_skip_rate
\* = 100 - total_blocks * 100 / total_slots over all validators, a value
\* in 0..100, and no usize subtraction overflows, repeated offsets
\* included.
C8_ClusterRate ==
    (Called /\ ~C6_NoSlots) =>
        /\ result.kind # "overflow"
        /\ result.kind = "Ok" <=>
               \A s \in AssignedKeys : PubkeyFromStr(s) # NoPubkey
        /\ result.kind = "Ok" =>
              /\ result.cluster_average_skip_rate
                   = 100 - ((Cardinality(ProducedEntries) * 100)
                            \div Cardinality(AllEntries))
              /\ result.cluster_average_skip_rate \in 0..100
              /\ \A s \in AssignedKeys : SkipRate(s) \in 0..100

\* C8 witness: a schedule that lists one offset twice for one validator,
\* the slot confirmed.
C8_Witness ==
    /\ ReturnedOk
    /\ \E s \in AssignedKeys :
         \E i, j \in DOMAIN leader_schedule[s] :
            /\ i # j
            /\ leader_schedule[s][i] = leader_schedule[s][j]
            /\ (first_slot_in_epoch + leader_schedule[s][i])
                  \in confirmed_blocks

\* C9: on the schedule and confirmed blocks of
\* test_quality_producer_with_average_skip_rate, with
\* quality_block_producer_percentage = 10, the cluster-relative floor on
\* and max_poor_block_producer_percentage = 40, validators 1, 2 and 5 are
\* of quality, 3 and 4 are poor and too_many_poor is false.
C9_Inputs ==
    /\ pc = "idle"
    /\ first_slot_in_epoch = 0
    /\ leader_schedule = TestSchedule
    /\ confirmed_blocks = TestConfirmedAverage
    /\ config.quality_block_producer_percentage = 10
    /\ config.use_cluster_average_skip_rate
    /\ config.max_poor_block_producer_percentage = 40

C9_AverageSkipRateTest ==
    (C9_Inputs /\ result.kind # "none") =>
        /\ result.kind = "Ok"
        /\ result.quality_block_producers = {1, 2, 5}
        /\ result.poor_block_producers = {3, 4}
        /\ ~result.too_many_poor_block_producers

\* C9 witness: the call was made on those inputs.
C9_Witness == C9_Inputs /\ result.kind = "Ok"

(***************************************************************************)
(* What the claims about the decision pass of main speak of.               *)
(***************************************************************************)
\* The enrolled observed validators the loop has visited.
Decided ==
    IF pc \in {"decide", "apply"}
    THEN {n \in DOMAIN vote_account_info \ remaining :
             PubkeyFromStr(n) \in enrolled}
    ELSE {}

EntriesOf(n) ==
    {i \in DOMAIN desired_validator_stake :
        desired_validator_stake[i].identity = PubkeyFromStr(n)}

\* The rules of the decision pass, each on its own.
Rule1_ConcentrationDestake(n) ==
    /\ PubkeyFromStr(n) \in DOMAIN infrastructure_concentration
    /\ \/ config.infrastructure_concentration_affects.kind = "DestakeAll"
       \/ /\ config.infrastructure_concentration_affects.kind
               = "DestakeListed"
          /\ PubkeyFromStr(n)
               \in config.infrastructure_concentration_affects.list

Rule2_Commission(n) ==
    vote_account_info[n].commission > config.max_commission

Rule3_StaleSoftware(n) ==
    n \in cluster_nodes_with_old_version /\ ~too_many_old_validators

Rule4_Delinquent(n) ==
    vote_account_info[n].root_slot
      < epoch_info.absolute_slot - config.delinquent_grace_slot_distance

Rule5_RecentlyDelinquent(n) ==
    vote_account_info[n].root_slot < epoch_info.absolute_slot - 256

Rule6_Quality(n) == PubkeyFromStr(n) \in result.quality_block_producers

Rule7_Poor(n) ==
    /\ PubkeyFromStr(n) \in result.poor_block_producers
    /\ ~result.too_many_poor_block_producers

Rule8_PoorTooMany(n) ==
    /\ PubkeyFromStr(n) \in result.poor_block_producers
    /\ result.too_many_poor_block_producers

\* The number of the first applicable rule, 9 when none of 1..8 applies.
FirstRule(n) ==
    CASE Rule1_ConcentrationDestake(n) -> 1
      [] ~Rule1_ConcentrationDestake(n) /\ Rule2_Commission(n) -> 2
      [] OTHER ->
         IF Rule3_StaleSoftware(n) THEN 3
         ELSE IF Rule4_Delinquent(n) THEN 4
         ELSE IF Rule5_RecentlyDelinquent(n) THEN 5
         ELSE IF Rule6_Quality(n) THEN 6
         ELSE IF Rule7_Poor(n) THEN 7
         ELSE IF Rule8_PoorTooMany(n) THEN 8
         ELSE 9

Expected(n) ==
    CASE FirstRule(n) \in {1, 2, 3, 4} -> "None"
      [] FirstRule(n) \in {5, 8} -> "no decision"
      [] FirstRule(n) = 6 -> "Bonus"
      [] FirstRule(n) \in {7, 9} -> "Baseline"

\* C10: for every enrolled observed validator the decision pass yields the
\* outcome of the first applicable rule of the list (1) concentration
\* destake -> None, (2) commission above the maximum -> None, (3) stale
\* software, not too many stale -> None, (4) root slot behind by more than
\* the grace distance -> None, (5) behind by more than 256 -> no decision,
\* (6) quality -> Bonus, (7) poor, not too many poor -> Baseline, (8) poor,
\* too many poor -> no decision, (9) otherwise Baseline; no decision adds
\* no entry, any other outcome adds one entry with a non-empty memo.
C10_FirstApplicableRule ==
    \A n \in Decided :
        IF Expected(n) = "no decision"
        THEN EntriesOf(n) = {}
        ELSE /\ Cardinality(EntriesOf(n)) = 1
             /\ \A i \in EntriesOf(n) :
                   /\ desired_validator_stake[i].stake_state = Expected(n)
                   /\ desired_validator_stake[i].memo # <<>>

\* C10 witnesses: the pass is over and rule k was the first applicable
\* rule of a visited validator, for every k of 1..9.
C10_RuleFired(k) == pc = "apply" /\ \E n \in Decided : FirstRule(n) = k

C10_Witness ==
    /\ pc = "apply"
    /\ \E n \in Decided :
          /\ FirstRule(n) = 2
          /\ Rule6_Quality(n)
          /\ Rule4_Delinquent(n)
    /\ \E n \in Decided : FirstRule(n) \in {6, 7, 9}

\* C11: an enrolled validator whose commission is above max_commission and
\* that is in the quality set is given exactly one entry, with the desired
\* state None, whatever its root slot, its software version and the
\* infrastructure verdict are.
C11_CommissionBeatsQuality ==
    \A n \in Decided :
        (Rule2_Commission(n) /\ Rule6_Quality(n))
          => /\ Cardinality(EntriesOf(n)) = 1
             /\ \A i \in EntriesOf(n) :
                   desired_validator_stake[i].stake_state = "None"

\* C11 witness: the pass is over, and a quality validator above the
\* maximum commission, healthy on every other count, has its entry.
C11_Witness ==
    /\ pc = "apply"
    /\ \E n \in Decided :
          /\ Rule2_Commission(n)
          /\ Rule6_Quality(n)
          /\ ~Rule1_ConcentrationDestake(n)
          /\ ~Rule3_StaleSoftware(n)
          /\ ~Rule5_RecentlyDelinquent(n)
          /\ EntriesOf(n) # {}

\* C12: an entry with the desired state Bonus or Baseline is given only to
\* a validator to which no destaking rule applies: no concentration destake
\* verdict, commission not above the maximum, not stale while staleness is
\* acted on, root slot not behind by more than the grace distance.
C12_StakeOnlyWithoutDestake ==
    \A n \in Decided :
        \A i \in EntriesOf(n) :
            desired_validator_stake[i].stake_state \in {"Bonus", "Baseline"}
              => /\ ~Rule1_ConcentrationDestake(n)
                 /\ ~Rule2_Commission(n)
                 /\ ~Rule3_StaleSoftware(n)
                 /\ ~Rule4_Delinquent(n)

\* C12 witness: the pass is over, one validator was given Bonus and
\* another one Baseline.
C12_Witness ==
    /\ pc = "apply"
    /\ \E i \in DOMAIN desired_validator_stake :
          desired_validator_stake[i].stake_state = "Bonus"
    /\ \E i \in DOMAIN desired_validator_stake :
          desired_validator_stake[i].stake_state = "Baseline"

(***************************************************************************)
(* What the claims about staleness and about the poor ceiling speak of.    *)
(***************************************************************************)
\* The flags and the notifications of lines 822-846 are set.
RatesChecked == pc \in {"get_data_center_info", "decide", "apply"}

StaleMemo == "is running an old software release"

TooManyOldNotification ==
    "Over max of validators classified as running an older release"

\* Some entry removes stake for staleness.
StaleDestaked ==
    \E i \in DOMAIN desired_validator_stake :
        desired_validator_stake[i].memo[2] = StaleMemo

Notified(text) ==
    \E i \in DOMAIN notifications : notifications[i] = <<text>>

NumStale == Cardinality(cluster_nodes_with_old_version)

NumClassified ==
    Cardinality(result.poor_block_producers)
      + Cardinality(result.quality_block_producers)

\* C13 as stated: stake is removed for staleness only if fewer than
\* max_old_release_version_percentage percent of the enrolled validators
\* are stale; when that share is reached or exceeded nobody is destaked for
\* staleness and the "too many old" notification is recorded.
C13_StaleShareOfEnrolled ==
    RatesChecked =>
       LET reached ==
               NumStale * 100
                 >= config.max_old_release_version_percentage
                      * Cardinality(enrolled)
       IN  /\ StaleDestaked => ~reached
           /\ reached => (~StaleDestaked /\ Notified(TooManyOldNotification))

\* C13 amended: stake is removed for staleness only if the number of stale
\* enrolled validators is at most classified * percentage / 100 (integer
\* division, classified = quality + poor validators); when it is above,
\* nobody is destaked for staleness and the notification is recorded.
C13_StaleThreshold ==
    RatesChecked =>
       LET limit ==
               (NumClassified * config.max_old_release_version_percentage)
                  \div 100
       IN  /\ StaleDestaked => NumStale <= limit
           /\ NumStale > limit
                => (~StaleDestaked /\ Notified(TooManyOldNotification))

\* C13 witness: one of two classified validators is stale, which is the
\* limit exactly, and its stake is removed for staleness.
C13_Witness ==
    /\ pc = "apply"
    /\ NumClassified = 2
    /\ NumStale = 1
    /\ config.max_old_release_version_percentage = 50
    /\ StaleDestaked

\* The other side: more stale validators than the limit, nobody destaked.
C13_TooManyOld ==
    /\ pc = "apply"
    /\ NumStale = 2
    /\ ~StaleDestaked
    /\ Notified(TooManyOldNotification)

\* The entries decided on block production: rules 6 and 7.
BlockProductionMemos ==
    {"was a quality block producer", "was a poor block producer"}

PoorShare ==
    (100 * Cardinality(result.poor_block_producers)) \div NumClassified

\* C14 as stated: when at least max_poor_block_producer_percentage percent
\* of the classified validators are poor, no non-delinquent validator is
\* given Bonus or Baseline on the basis of block production.
C14_NoBonusChangeWhenManyPoor ==
    (RatesChecked /\ PoorShare >= config.max_poor_block_producer_percentage)
      => \A i \in DOMAIN desired_validator_stake :
            desired_validator_stake[i].memo[2] \notin BlockProductionMemos

\* What the code does when the share is above the maximum: the poor ones
\* are left alone, the quality ones are still given Bonus.
C14_PoorHeldOnly ==
    (RatesChecked /\ PoorShare > config.max_poor_block_producer_percentage)
      => \A i \in DOMAIN desired_validator_stake :
            desired_validator_stake[i].memo[2] # "was a poor block producer"

\* The share is reached exactly and the poor validator is moved to Baseline.
C14_AtShare ==
    /\ pc = "apply"
    /\ PoorShare = config.max_poor_block_producer_percentage
    /\ \E i \in DOMAIN desired_validator_stake :
          desired_validator_stake[i].memo[2] = "was a poor block producer"

(***************************************************************************)
(* What the claim about infrastructure concentration speaks of.            *)
(***************************************************************************)
\* The decision pass removed the stake of the validator for concentration.
ConcentrationDestaked(id) ==
    \E i \in DOMAIN desired_validator_stake :
        /\ desired_validator_stake[i].identity = id
        /\ desired_validator_stake[i].stake_state = "None"
        /\ desired_validator_stake[i].memo = destake_memo(id)

\* The decision pass recorded a concentration warning about the validator.
ConcentrationWarned(id) ==
    \E i \in DOMAIN notifications : notifications[i] = warning_memo(id)

AboveMaximum(id) ==
    data_center_info[id] > config.max_infrastructure_concentration

\* C15: for a visited enrolled validator whose data-center stake percentage
\* is strictly above max_infrastructure_concentration, WarnAll gives a
\* warning (and no destake), DestakeAll gives a destake (and no warning),
\* DestakeListed gives a destake if and only if the identity is listed and
\* a warning otherwise; at or below the maximum there is neither.
C15_ConcentrationVerdict ==
    \A n \in Decided :
        LET id == PubkeyFromStr(n)
            affects == config.infrastructure_concentration_affects
            destake ==
                \/ affects.kind = "DestakeAll"
                \/ affects.kind = "DestakeListed" /\ id \in affects.list
        IN  IF AboveMaximum(id)
            THEN /\ ConcentrationDestaked(id) <=> destake
                 /\ ConcentrationWarned(id) <=> ~destake
            ELSE /\ ~ConcentrationDestaked(id)
                 /\ ~ConcentrationWarned(id)

\* C15 witness: under DestakeListed both validators are above the maximum,
\* the listed one is destaked and the other one gets the warning.
C15_Witness ==
    /\ pc = "apply"
    /\ config.infrastructure_concentration_affects.kind = "DestakeListed"
    /\ \E n, m \in Decided :
          /\ AboveMaximum(PubkeyFromStr(n))
          /\ AboveMaximum(PubkeyFromStr(m))
          /\ ConcentrationDestaked(PubkeyFromStr(n))
          /\ ConcentrationWarned(PubkeyFromStr(m))

\* A validator exactly at the maximum is visited under DestakeAll and gets
\* an entry that is not a destake for concentration.
C15_AtMaximum ==
    /\ pc = "apply"
    /\ config.infrastructure_concentration_affects.kind = "DestakeAll"
    /\ \E n \in Decided :
          /\ data_center_info[PubkeyFromStr(n)]
               = config.max_infrastructure_concentration
          /\ EntriesOf(n) # {}

(***************************************************************************)
(* What the claims about the sweeps and the end of the run speak of.       *)
(***************************************************************************)
Terminated == pc \in {"exit_ok", "exit_err", "panicked"}

\* Some operation of a sweep ended without confirmation.
SomeOperationFailed == \E i \in DOMAIN outcomes : outcomes[i] = "Failed"

\* The operations of the init plan and of the apply plan that were handed
\* to the remote ledger.
MutationsSubmitted == submitted # <<>>

\* C16 as stated: the run ends with success if and only if the endpoint was
\* healthy, init and plan construction succeeded and every submitted
\* operation of both sweeps confirmed.
C16_SuccessIffAllConfirmed ==
    Terminated =>
       (pc = "exit_ok"
          <=> /\ {"healthy", "init_planned", "apply_planned"} \subseteq events
              /\ ~SomeOperationFailed)

\* C16 amended: the run ends with success if and only if the endpoint was
\* healthy, init and plan construction succeeded, both sweeps returned
\* their verdict (neither was aborted by a fatal precondition) and every
\* submitted operation confirmed; a failed operation makes it end with an
\* error, and a dry run whose sweeps both reported success ends with
\* success.
C16_SuccessIffSweptAndConfirmed ==
    Terminated =>
       /\ pc = "exit_ok"
            <=> /\ {"healthy", "init_planned", "init_swept",
                    "apply_planned", "apply_swept"} \subseteq events
                /\ ~SomeOperationFailed
       /\ SomeOperationFailed => pc = "exit_err"
       /\ (config.dry_run /\ {"init_swept", "apply_swept"} \subseteq events)
            => pc = "exit_ok"

\* C16 witness: a live run ended with success after both sweeps had
\* operations confirmed.
C16_Witness ==
    /\ pc = "exit_ok"
    /\ ~config.dry_run
    /\ Len(submitted) >= 2

\* A live run ended with an error because an operation of the apply sweep
\* failed.
C16_FailedRun ==
    /\ pc = "exit_err"
    /\ "apply_swept" \in events
    /\ SomeOperationFailed

\* C17: in a dry run no operation is ever handed to the remote ledger, in
\* the init sweep or in the apply sweep (the remote allocation stays what
\* it was), and each sweep returns success: main is never past a sweep
\* with a false verdict, and a run that has built a plan ends in error
\* only for what comes after the sweep of that plan.
C17_DryRunSubmitsNothing ==
    config.dry_run =>
       /\ ~MutationsSubmitted
       /\ ledger = MainLedger
       /\ pc \in {"check_init", "notify", "exit"} => ok
       /\ (pc = "exit_err" /\ "init_planned" \in events)
            => "init_swept" \in events
       /\ (Terminated /\ "apply_planned" \in events) => pc = "exit_ok"

\* C17 witness: a dry run has ended with success, its apply plan had
\* operations, and none was submitted.
C17_Witness ==
    /\ config.dry_run
    /\ pc = "exit_ok"
    /\ Len(transactions) >= 2
    /\ ~MutationsSubmitted

\* A sweep has returned its boolean to main.
SweepReturned == pc \in {"check_init", "notify", "exit"}

\* Every operation of the plan of the sweep was confirmed.
AllConfirmed ==
    /\ Len(outcomes) = Len(transactions)
    /\ \A i \in DOMAIN outcomes : outcomes[i] = "Confirmed"

\* C18 as stated: the boolean a sweep returns is true if and only if every
\* operation of its plan was confirmed.
C18_TrueIffAllConfirmed == SweepReturned => (ok <=> AllConfirmed)

\* C18 amended: in live mode the boolean a sweep returns is true if and
\* only if every operation of its plan was confirmed, so one operation
\* that is not confirmed makes it false; a dry-run sweep returns true
\* without confirming anything.
C18_LiveTrueIffAllConfirmed ==
    SweepReturned =>
       IF config.dry_run THEN ok ELSE (ok <=> AllConfirmed)

\* C18 witness: a live apply sweep has returned false with one operation
\* confirmed and the one after it failed.
C18_Witness ==
    /\ pc = "notify"
    /\ ~config.dry_run
    /\ Len(outcomes) = 2
    /\ outcomes[1] = "Failed"
    /\ outcomes[2] = "Confirmed"
    /\ ~ok

RECURSIVE IsPrefix(_, _)
IsPrefix(s, t) ==
    \/ s = <<>>
    \/ /\ t # <<>>
       /\ Head(s) = Head(t)
       /\ IsPrefix(Tail(s), Tail(t))

\* What holds of a live sweep in every state: the operations are handed to
\* the ledger in the declared order, one outcome each, and once the sweep
\* has returned every operation of the plan has been submitted, whatever
\* the outcomes of the ones before it were.
LiveSweepOrder ==
    ~config.dry_run =>
       /\ IsPrefix(submitted, transactions)
       /\ Len(outcomes) <= Len(submitted)
       /\ Len(submitted) <= Len(outcomes) + 1
       /\ SweepReturned => submitted = transactions

\* A step that records a failure records it for the operation submitted
\* last, leaves the remote allocation and the earlier outcomes as they are;
\* the allocation changes only by the operation that has just confirmed.
FailureIsLocal ==
    /\ (outcomes' # outcomes /\ outcomes' # <<>>)
          => /\ Len(outcomes') = Len(outcomes) + 1
             /\ IsPrefix(outcomes, outcomes')
             /\ outcomes'[Len(outcomes')] = "Failed" => ledger' = ledger
    /\ ledger' # ledger
          => /\ outcomes' = Append(outcomes, "Confirmed")
             /\ ledger' = Applied(ledger, transactions[Len(outcomes')])

\* C19: in live mode a rejected operation is the failure of that operation
\* only: the remaining operations of the plan are still submitted, in the
\* declared order (so create comes before fund for the same validator),
\* and what has confirmed stays applied.
C19_FailureDoesNotAbort == [](LiveSweepOrder) /\ [][FailureIsLocal]_vars

\* C19 witness: a live sweep of three operations has returned; the create
\* of the first validator was rejected, the fund of the same validator was
\* submitted after it, and the operation of the other validator confirmed
\* and is applied.
C19_Witness ==
    /\ ~config.dry_run
    /\ pc = "notify"
    /\ Len(transactions) = 3
    /\ submitted = transactions
    /\ transactions[1].kind = "create"
    /\ transactions[2].kind = "fund"
    /\ transactions[1].identity = transactions[2].identity
    /\ outcomes = <<"Failed", "Failed", "Confirmed">>
    /\ ledger[transactions[3].identity] = transactions[3].stake_state

(***************************************************************************)
(* The confirmed-block cache on its own.  classify_block_producers, lines  *)
(* 696-701, calls query(first_slot_in_epoch, last_slot_in_epoch) once per  *)
(* run; the store outlives the run, so the calls of several runs follow    *)
(* one another here.                                                       *)
(***************************************************************************)
MaxSlot == 3

Slots == 0 .. (MaxSlot - 1)

\* Half-open ranges [start, end).
Ranges == {r \in (0 .. MaxSlot) \X (0 .. MaxSlot) : r[1] <= r[2]}

SlotsOf(start, end) == {s \in Slots : start <= s /\ s < end}

all_slots(start, end, store) == SlotsOf(start, end)

\* The slots of the range the store has no entry for.
missing_slots(start, end, store) ==
    {s \in SlotsOf(start, end) : s \notin DOMAIN store}

\* The store after the slots of `fetched` have been asked of the remote
\* ledger and persisted.
persisted(store, fetched) ==
    [s \in DOMAIN store \cup fetched |->
        IF s \in fetched THEN s \in slot_history ELSE store[s]]

CacheInit ==
    /\ MainIdle
    /\ SubmitIdle
    /\ CliIdle
    /\ previous = NotCalled
    /\ result = NotCalled
    /\ first_slot_in_epoch = 0
    /\ confirmed_blocks = {}
    /\ leader_schedule = <<>>
    /\ config = default_for_test
    /\ slot_history \in SUBSET Slots
    /\ cache = <<>>
    /\ query = NoQuery
    /\ earlier = NoQuery

\* query(start, end) completes: the missing slots are fetched and
\* persisted, the confirmed slots of the range are returned.  `earlier`
\* keeps one of the queries completed before this one.
Query(start, end) ==
    /\ LET fetched == missing_slots(start, end, cache)
       IN  /\ cache' = persisted(cache, fetched)
           /\ query' = [start |-> start, end |-> end,
                        confirmed |-> {s \in SlotsOf(start, end) : cache'[s]},
                        fetches |-> Cardinality(fetched)]
    /\ IF query = NoQuery
       THEN UNCHANGED earlier
       ELSE earlier' \in {earlier, query}
    /\ UNCHANGED <<classify_vars, config, result, main_vars, submit_vars, cli_vars,
                   slot_history>>

\* query(start, end) fails with a RemoteQueryError: what was fetched before
\* the failing fetch may have been persisted, nothing is returned.
QueryFails(start, end) ==
    /\ \E fetched \in SUBSET missing_slots(start, end, cache) :
          /\ fetched # missing_slots(start, end, cache)
          /\ cache' = persisted(cache, fetched)
    /\ UNCHANGED <<classify_vars, config, result, main_vars, submit_vars, cli_vars,
                   slot_history, query, earlier>>

\* The remote history grows: a slot is confirmed.
ConfirmSlot(s) ==
    /\ s \notin slot_history
    /\ slot_history' = slot_history \cup {s}
    /\ UNCHANGED <<classify_vars, config, result, main_vars, submit_vars, cli_vars,
                   cache, query, earlier>>

CacheNext ==
    \/ \E r \in Ranges : Query(r[1], r[2])
    \/ \E r \in Ranges : QueryFails(r[1], r[2])
    \/ \E s \in Slots : ConfirmSlot(s)

CacheSpec == CacheInit /\ [][CacheNext]_vars

\* The latest query asks for a range, or a part of the range, of a query
\* completed before it.
Repeated ==
    /\ query # NoQuery
    /\ earlier # NoQuery
    /\ earlier.start <= query.start
    /\ query.end <= earlier.end

RoundTrip ==
    Repeated =>
       /\ query.fetches = 0
       /\ query.confirmed
            = earlier.confirmed \cap SlotsOf(query.start, query.end)

AppendOnly ==
    \A s \in DOMAIN cache : s \in DOMAIN cache' /\ cache'[s] = cache[s]

\* C20: a query over the range of a completed query, or over a part of it,
\* fetches nothing from the remote ledger and returns the confirmed slots
\* the first one returned (those of them in its range); and no step
\* removes or changes an entry of the store.
C20_CacheRoundTrip == [](RoundTrip) /\ [][AppendOnly]_vars

\* C20 witness: the second query is over a proper part of the range of the
\* first one, which had fetched slots and found confirmed ones, and the
\* remote history has grown in between.
C20_Witness ==
    /\ Repeated
    /\ earlier.fetches >= 2
    /\ query.start > earlier.start
    /\ query.confirmed # {}
    /\ query.confirmed # slot_history \cap SlotsOf(query.start, query.end)

(***************************************************************************)
(* What the claim about the idempotence of apply speaks of.                *)
(***************************************************************************)
\* The plan apply would build if it were run again now, with the same
\* desired states, on the allocation the sweep has left.
Replan == apply_transactions(ledger, desired_validator_stake)

RECURSIVE FailedFrom(_)
\* The operations of the plan from position i on that did not take effect.
FailedFrom(i) ==
    IF i > Len(transactions)
    THEN <<>>
    ELSE (IF outcomes[i] = "Failed" THEN <<transactions[i]>> ELSE <<>>)
         \o FailedFrom(i + 1)

\* A live apply sweep has gone through its whole plan.
LiveSweepDone ==
    /\ ~config.dry_run
    /\ "apply_swept" \in events

\* C21: apply run again with the same desired states after a live sweep
\* builds exactly the operations of the first plan that did not take
\* effect, in their order: none after a fully successful sweep.
C21_ApplyIdempotent ==
    LiveSweepDone =>
       /\ Replan = FailedFrom(1)
       /\ AllConfirmed => Replan = <<>>

\* C21 witness: a sweep of three operations has confirmed the first and
\* the last one only, and the plan built again is the second one alone.
C21_Witness ==
    /\ LiveSweepDone
    /\ outcomes = <<"Confirmed", "Failed", "Confirmed">>
    /\ Replan = <<transactions[2]>>

\* A fully successful sweep of a plan of three operations.
C21_AllApplied ==
    /\ LiveSweepDone
    /\ Len(transactions) = 3
    /\ AllConfirmed

(***************************************************************************)
(* What the claims about the order of the steps of a run speak of.         *)
(***************************************************************************)
\* The run has gone past the health check.
PastHealthCheck == pc \notin {"idle", "start", "get_health", "exit_err"}

\* Nothing has been done to the remote ledger, and init has not been
\* called.
NothingMutated ==
    /\ ~MutationsSubmitted
    /\ ledger = MainLedger
    /\ "init_planned" \notin events

\* The step is the health check, and it fails.
HealthCheckFails == pc = "get_health" /\ "healthy" \notin events'

\* C23: no mutation of the ledger and no call of init precedes a successful
\* health check, and a failed health check ends the run with an error on
\* the spot, with nothing mutated.
C23_HealthBeforeMutation ==
    /\ []("healthy" \notin events => NothingMutated)
    /\ [](PastHealthCheck => "healthy" \in events)
    /\ [][HealthCheckFails => (pc' = "exit_err" /\ NothingMutated')]_vars

\* C23 witness: a live run has ended with an error at the health check,
\* having submitted nothing.
C23_Witness ==
    /\ ~config.dry_run
    /\ pc = "exit_err"
    /\ "healthy" \notin events
    /\ NothingMutated
    /\ enrolled = Identities

\* Classification, the decision pass or apply is under way or done.
PastInit ==
    \/ pc \in {"get_cluster_nodes", "classify", "check_rates",
               "get_data_center_info", "decide", "apply", "apply_sweep",
               "notify", "exit", "exit_ok", "panicked"}
    \/ result.kind # "none"
    \/ desired_validator_stake # <<>>
    \/ "apply_planned" \in events

\* The verdict of the init sweep is still the latest one.
BeforeApplySweepReturns ==
    pc \in {"get_cluster_nodes", "classify", "check_rates",
            "get_data_center_info", "decide", "apply", "apply_sweep"}

\* Only operations of the init plan have been submitted.
NoApplyOperationSubmitted ==
    \A i \in DOMAIN submitted : submitted[i].kind = "create"

\* C24: classification, the decision pass and apply take place only after
\* the init plan has been built, swept and reported successful; when the
\* init sweep reports failure the next step is the error exit, and as long
\* as apply has not been called no apply operation has been submitted.
C24_InitBeforeApply ==
    /\ [](PastInit => {"init_planned", "init_swept"} \subseteq events)
    /\ [](BeforeApplySweepReturns => ok)
    /\ []("apply_planned" \notin events => NoApplyOperationSubmitted)
    /\ [][(pc = "check_init" /\ ~ok)
            => (pc' = "exit_err" /\ "apply_planned" \notin events')]_vars

\* C24 witness: a live run whose init operation failed has ended with an
\* error without apply.
C24_Witness ==
    /\ ~config.dry_run
    /\ pc = "exit_err"
    /\ "init_swept" \in events
    /\ outcomes = <<"Failed">>
    /\ "apply_planned" \notin events
    /\ Len(submitted) = 1

\* A live run is in its apply sweep after a confirmed init operation.
C24_InitThenApply ==
    /\ ~config.dry_run
    /\ pc = "apply_sweep"
    /\ Len(submitted) >= 2
    /\ submitted[1].kind = "create"
    /\ submitted[2].kind = "fund"

(***************************************************************************)
(* What the claims about the frame of the decision pass speak of.          *)
(***************************************************************************)
\* The step visits the enrolled validator n, whose concentration verdict
\* is a warning.
WarnedStep(n) ==
    /\ pc = "decide"
    /\ n \in remaining
    /\ remaining' = remaining \ {n}
    /\ is_enrolled(PubkeyFromStr(n))
    /\ PubkeyFromStr(n) \in DOMAIN infrastructure_concentration
    /\ ~Rule1_ConcentrationDestake(n)

\* What the step adds to the list of desired states.
AddedEntries ==
    SubSeq(desired_validator_stake', Len(desired_validator_stake) + 1,
           Len(desired_validator_stake'))

\* C25: the step that visits a validator with a warning verdict appends
\* the warning memo of that validator, once, to the notifications and does
\* nothing else to them; the desired state it adds is the one the rules
\* after the concentration rule give (none for "no decision"), with the
\* memo of that rule.
C25_WarningIsOnlyAMemo ==
    [][\A n \in Nodes :
          WarnedStep(n) =>
             /\ notifications'
                  = Append(notifications, warning_memo(PubkeyFromStr(n)))
             /\ IsPrefix(desired_validator_stake, desired_validator_stake')
             /\ IF Expected(n) = "no decision"
                THEN AddedEntries = <<>>
                ELSE /\ Len(AddedEntries) = 1
                     /\ AddedEntries[1].identity = PubkeyFromStr(n)
                     /\ AddedEntries[1].stake_state = Expected(n)
                     /\ AddedEntries[1].memo
                          # warning_memo(PubkeyFromStr(n))
                     /\ AddedEntries[1].memo
                          # destake_memo(PubkeyFromStr(n))]_vars

\* C25 witness: a quality validator with a warning verdict has been given
\* Bonus, and its warning is in the notifications.
C25_Witness ==
    /\ pc = "apply"
    /\ \E n \in Decided :
          /\ ConcentrationWarned(PubkeyFromStr(n))
          /\ \E i \in EntriesOf(n) :
                desired_validator_stake[i].stake_state = "Bonus"

\* A warned validator above the maximum commission has lost its stake
\* for the commission.
C25_WarnedAndDestaked ==
    /\ pc = "apply"
    /\ \E n \in Decided :
          /\ ConcentrationWarned(PubkeyFromStr(n))
          /\ \E i \in EntriesOf(n) :
                desired_validator_stake[i].memo[2] = "commission is too high"

\* The validators the loop has visited that are not enrolled.
VisitedNotEnrolled ==
    IF pc \in {"decide", "apply"}
    THEN {n \in DOMAIN vote_account_info \ remaining :
             PubkeyFromStr(n) \notin enrolled}
    ELSE {}

\* C27: the list of desired states has at most one entry per identity and
\* only entries of enrolled identities; an identity that is not enrolled
\* has no entry and no concentration warning among the notifications.
C27_OneEntryPerEnrolled ==
    /\ \A i, j \in DOMAIN desired_validator_stake :
          desired_validator_stake[i].identity
            = desired_validator_stake[j].identity => i = j
    /\ \A i \in DOMAIN desired_validator_stake :
          desired_validator_stake[i].identity \in enrolled
    /\ \A id \in Identities \ enrolled : ~ConcentrationWarned(id)

\* C27 witness: the pass is over; a validator that is not enrolled and is
\* above the concentration maximum was visited under WarnAll, and the
\* enrolled one has its entry.
C27_Witness ==
    /\ pc = "apply"
    /\ config.infrastructure_concentration_affects.kind = "WarnAll"
    /\ \E n \in VisitedNotEnrolled : AboveMaximum(PubkeyFromStr(n))
    /\ Len(desired_validator_stake) = 1

\* The apply sweep has returned and the run reports, or has reported, its
\* outcome.
OutcomeReported ==
    /\ "apply_swept" \in events
    /\ pc \in {"exit", "exit_ok", "exit_err"}

\* C28: once the apply sweep has returned its result, the run reports its
\* outcome only after every notification accumulated in the run was given
\* to the notifier, in order; this includes the run that ends with "One or
\* more transactions failed to execute".
C28_NotifiedBeforeOutcome == OutcomeReported => sent = notifications

\* C28 witness: a live run has ended with an error after its apply sweep;
\* the "too many old" notification, a concentration warning and the
\* notification of a failed operation were all delivered.
C28_Witness ==
    /\ pc = "exit_err"
    /\ "apply_swept" \in events
    /\ SomeOperationFailed
    /\ Notified(TooManyOldNotification)
    /\ \E id \in Identities : ConcentrationWarned(id)
    /\ \E i \in DOMAIN notifications :
          Len(notifications[i]) = 3 /\ notifications[i][2] = "Failed"
    /\ sent = notifications

(***************************************************************************)
(* The decision pass on its own, lines 865-966, early in the life of a     *)
(* cluster: current slots around the two thresholds, root slots from 0.    *)
(***************************************************************************)
EarlySlots == {0, 100, 256, 257, 600, 601, 1000}

RootSlots == {0, 1, 300, 500}

DecideInit ==
    /\ pc = "decide"
    /\ CacheIdle
    /\ CliIdle
    /\ SubmitIdle
    /\ config = [default_for_test EXCEPT
                    !.delinquent_grace_slot_distance = 600]
    /\ enrolled = Identities
    /\ first_slot_in_epoch = 0
    /\ confirmed_blocks = {}
    /\ leader_schedule = <<>>
    /\ previous = NotCalled
    /\ result = Outcome("Ok", {1}, {2}, 50, FALSE)
    /\ \E slot \in EarlySlots :
          epoch_info = [absolute_slot |-> slot, epoch |-> 0]
    /\ vote_accounts = NoVoteAccounts
    /\ vote_account_info \in
          [Nodes -> {[commission |-> 10, root_slot |-> r] : r \in RootSlots}]
    /\ cluster_nodes_with_old_version = {}
    /\ too_many_old_validators = FALSE
    /\ data_center_info = [id \in Identities |-> 0]
    /\ infrastructure_concentration = <<>>
    /\ notifications = <<>>
    /\ desired_validator_stake = <<>>
    /\ remaining = Nodes

DecideStep ==
    \/ \E node_pubkey_str \in Nodes : DecideNext(node_pubkey_str)
    \/ EndDecide

DecideSpec == DecideInit /\ [][DecideStep]_vars

GraceThreshold ==
    SaturatingSub(epoch_info.absolute_slot,
                  config.delinquent_grace_slot_distance)

RecentThreshold == SaturatingSub(epoch_info.absolute_slot, 256)

\* C29: neither threshold is below 0 or above the current slot; when the
\* current slot is at most delinquent_grace_slot_distance the grace
\* threshold is 0 and nobody is destaked as delinquent; when the current
\* slot is at most 256 nobody is held as recently delinquent, so every
\* visited validator has its entry.
C29_SaturatingThresholds ==
    /\ GraceThreshold \in 0 .. epoch_info.absolute_slot
    /\ RecentThreshold \in 0 .. epoch_info.absolute_slot
    /\ epoch_info.absolute_slot <= config.delinquent_grace_slot_distance
          => /\ GraceThreshold = 0
             /\ \A i \in DOMAIN desired_validator_stake :
                   desired_validator_stake[i].memo[2] # "is delinquent"
    /\ epoch_info.absolute_slot <= 256
          => /\ RecentThreshold = 0
             /\ \A n \in Decided : EntriesOf(n) # {}

\* C29 witness: at slot 100 the pass is over, and the validators with root
\* slots 0 and 1 were given Bonus and Baseline.
C29_Witness ==
    /\ pc = "apply"
    /\ epoch_info.absolute_slot = 100
    /\ vote_account_info["l1"].root_slot = 0
    /\ vote_account_info["l2"].root_slot = 1
    /\ Len(desired_validator_stake) = 2
    /\ \A i \in DOMAIN desired_validator_stake :
          desired_validator_stake[i].stake_state \in {"Bonus", "Baseline"}

\* Past both thresholds the rules do fire: at slot 1000 one validator is
\* destaked as delinquent and the other one is held.
C29_ThresholdsAct ==
    /\ pc = "apply"
    /\ epoch_info.absolute_slot = 1000
    /\ Len(desired_validator_stake) = 1
    /\ desired_validator_stake[1].memo[2] = "is delinquent"

(***************************************************************************)
(* get_vote_accounts on its own, lines 735-759: up to three vote accounts  *)
(* of two nodes, in every order, split between current and delinquent in   *)
(* every way, with equal and with different last votes.                    *)
(***************************************************************************)
LastVotes == {3, 5}

RpcVoteAccountInfos ==
    [node_pubkey : Nodes, vote_pubkey : {"v1", "v2", "v3"},
     last_vote : LastVotes, commission : {10}, root_slot : {744}]

\* No vote account is listed twice: the vote_pubkey tells them apart.
VoteAccountLists ==
    {<<>>}
    \cup {<<a>> : a \in {x \in RpcVoteAccountInfos : x.vote_pubkey = "v1"}}
    \cup {<<a, b>> : a \in {x \in RpcVoteAccountInfos : x.vote_pubkey = "v1"},
                     b \in {x \in RpcVoteAccountInfos : x.vote_pubkey = "v2"}}
    \cup {<<a, b, c>> :
            a \in {x \in RpcVoteAccountInfos : x.vote_pubkey = "v1"},
            b \in {x \in RpcVoteAccountInfos : x.vote_pubkey = "v2"},
            c \in {x \in RpcVoteAccountInfos : x.vote_pubkey = "v3"}}

RpcVoteAccountStatuses ==
    UNION {{[current |-> SubSeq(l, 1, k),
             delinquent |-> SubSeq(l, k + 1, Len(l))] : k \in 0 .. Len(l)} :
              l \in VoteAccountLists}

VoteAccountsInit ==
    /\ pc = "get_vote_accounts"
    /\ CacheIdle
    /\ CliIdle
    /\ ledger = MainLedger
    /\ transactions = <<>>
    /\ outcomes = <<>>
    /\ attempts = 0
    /\ submitted = <<>>
    /\ ok = FALSE
    /\ sent = <<>>
    /\ events = {"healthy"}
    /\ config = [default_for_test EXCEPT
                    !.delinquent_grace_slot_distance = 600]
    /\ enrolled = Identities
    /\ first_slot_in_epoch = 0
    /\ confirmed_blocks = {}
    /\ leader_schedule = <<>>
    /\ previous = NotCalled
    /\ result = NotCalled
    /\ epoch_info \in EpochInfos
    /\ vote_accounts \in RpcVoteAccountStatuses
    /\ vote_account_info = <<>>
    /\ cluster_nodes_with_old_version = {}
    /\ too_many_old_validators = FALSE
    /\ data_center_info = <<>>
    /\ infrastructure_concentration = <<>>
    /\ notifications = <<>>
    /\ desired_validator_stake = <<>>
    /\ remaining = {}

VoteAccountsSpec == VoteAccountsInit /\ [][GetVoteAccounts]_vars

\* current.into_iter().chain(delinquent.into_iter()), line 743.
Chained == vote_accounts.current \o vote_accounts.delinquent

\* C26: once the vote accounts are fetched, the observations kept are one
\* per identity that has a vote account; the one kept for an identity is
\* one of its vote accounts, and none of its vote accounts voted later.
C26_LatestVotePerIdentity ==
    pc = "init"
        => /\ DOMAIN vote_account_info =
                 {Chained[i].node_pubkey : i \in DOMAIN Chained}
           /\ \A n \in DOMAIN vote_account_info :
                 /\ vote_account_info[n].node_pubkey = n
                 /\ \E i \in DOMAIN Chained : Chained[i] = vote_account_info[n]
                 /\ \A i \in DOMAIN Chained :
                       Chained[i].node_pubkey = n
                           => Chained[i].last_vote
                                 <= vote_account_info[n].last_vote

\* C26 witness: the first node has a current vote account that voted last
\* at slot 3 and a delinquent one that voted at slot 5, the second node has
\* one vote account; two observations are kept, the first node's being the
\* later vote.
C26_Witness ==
    /\ pc = "init"
    /\ Len(vote_accounts.current) = 2
    /\ Len(vote_accounts.delinquent) = 1
    /\ vote_accounts.current[1].node_pubkey = "l1"
    /\ vote_accounts.current[1].last_vote = 3
    /\ vote_accounts.current[2].node_pubkey = "l2"
    /\ vote_accounts.delinquent[1].node_pubkey = "l1"
    /\ vote_accounts.delinquent[1].last_vote = 5
    /\ DOMAIN vote_account_info = {"l1", "l2"}
    /\ vote_account_info["l1"].vote_pubkey = "v3"

\* With equal last votes the vote account met first stays.
C26_TieKeepsFirst ==
    pc = "init"
        => \A n \in DOMAIN vote_account_info :
              \A i \in DOMAIN Chained :
                  /\ Chained[i].node_pubkey = n
                  /\ Chained[i].last_vote = vote_account_info[n].last_vote
                  => \E j \in 1 .. i : Chained[j] = vote_account_info[n]

(***************************************************************************)
(* The registry command line tool, cli/src/main.rs: process_apply (lines   *)
(* 132-193) and send_and_confirm_message (lines 40-75).  Every remote      *)
(* call is a step that may fail; an Err ends the command through `?`.      *)
(***************************************************************************)
\* u64 values are kept below this modulus (the width is scaled down).
U64Modulus == 8

\* u64 `+`: the sum when it fits; when it does not, a debug build panics
\* (no value) and a release build wraps around.
u64_add(a, b) ==
    IF a + b < U64Modulus
    THEN {<<a + b>>}
    ELSE {<<>>, <<(a + b) % U64Modulus>>}

\* Option<u64>::unwrap_or_default
unwrap_or_default(option) == IF option = <<>> THEN 0 ELSE option[1]

Keys == 1 .. 4

\* Participants the registry may hold before the command runs.
Registered ==
    {[participant |-> "p1", mainnet_identity |-> 1, testnet_identity |-> 2],
     [participant |-> "p2", mainnet_identity |-> 2, testnet_identity |-> 3]}

Fees == {1, 5}

Rents == {2, 4}

Balances == {0, 1, 3, 6, 7}

CliErr(text) == <<"Err", text>>

CliOk == <<"Ok">>

CliInit ==
    /\ MainIdle
    /\ SubmitIdle
    /\ CacheIdle
    /\ previous = NotCalled
    /\ result = NotCalled
    /\ first_slot_in_epoch = 0
    /\ confirmed_blocks = {}
    /\ leader_schedule = <<>>
    /\ config = default_for_test
    /\ \/ /\ cli_pc = "process_apply"
          /\ args \in [command : {"apply"}, mainnet_identity : Keys,
                       testnet_identity : Keys, confirm : BOOLEAN]
          /\ additional_funds_required = <<>>
       \/ \* another command calls send_and_confirm_message (lines 224,
          \* 273, 303: None; line 354: Some(rent))
          /\ cli_pc = "send_and_confirm_message"
          /\ args = [command |-> "other", mainnet_identity |-> 4,
                     testnet_identity |-> 4, confirm |-> TRUE]
          /\ additional_funds_required \in {<<>>} \cup {<<r>> : r \in Rents}
    /\ participants \in SUBSET Registered
    /\ lamports \in Balances
    /\ fee \in Fees
    /\ rent \in Rents
    /\ balance = <<>>
    /\ funds_required = <<>>
    /\ signatures = 0
    /\ cli_sent = <<>>
    /\ cli_result = <<>>

get_participants_by_mainnet(registry, identities) ==
    {p \in registry : p.mainnet_identity \in identities}

\* Lines 77-86: the participants one of whose identities is among the given
\* ones.
get_participants_with_identity(registry, identities) ==
    {p \in registry :
        \/ p.testnet_identity \in identities
        \/ p.mainnet_identity \in identities}

\* The command returns.
Return(value) ==
    /\ cli_result' = value
    /\ cli_pc' = "returned"

\* Lines 139-159: the registry is read; a registration with one of the two
\* identities ends the command with an error, a missing --confirm ends it
\* with the warning and Ok.
ProcessApply ==
    /\ cli_pc = "process_apply"
    /\ \/ Return(CliErr("rpc"))
       \/ LET found ==
                  get_participants_with_identity(
                      participants,
                      {args.mainnet_identity, args.testnet_identity})
          IN  IF found # {}
              THEN Return(CliErr("Registration already exists"))
              ELSE IF ~args.confirm
                   THEN Return(CliOk)
                   ELSE /\ cli_pc' = "get_rent"
                        /\ UNCHANGED cli_result
    /\ UNCHANGED <<classify_vars, config, result, main_vars, submit_vars,
                   cache_vars, args, participants, lamports, fee, rent,
                   additional_funds_required, balance, funds_required,
                   signatures, cli_sent>>

\* Lines 161-193: the rent is asked for and send_and_confirm_message called
\* with Some(rent).
GetRent ==
    /\ cli_pc = "get_rent"
    /\ \/ /\ Return(CliErr("rpc"))
          /\ UNCHANGED additional_funds_required
       \/ /\ additional_funds_required' = <<rent>>
          /\ cli_pc' = "send_and_confirm_message"
          /\ UNCHANGED cli_result
    /\ UNCHANGED <<classify_vars, config, result, main_vars, submit_vars,
                   cache_vars, args, participants, lamports, fee, rent,
                   balance, funds_required, signatures, cli_sent>>

\* Lines 46-51: the blockhash and the fee calculator are fetched and
\* funds_required computed.
GetRecentBlockhash ==
    /\ cli_pc = "send_and_confirm_message"
    /\ \/ /\ Return(CliErr("error: unable to get recent blockhash"))
          /\ UNCHANGED funds_required
       \/ \E sum \in u64_add(fee,
                             unwrap_or_default(additional_funds_required)) :
             IF sum = <<>>
             THEN /\ cli_pc' = "panicked"
                  /\ UNCHANGED <<funds_required, cli_result>>
             ELSE /\ funds_required' = sum
                  /\ cli_pc' = "get_balance"
                  /\ UNCHANGED cli_result
    /\ UNCHANGED <<classify_vars, config, result, main_vars, submit_vars,
                   cache_vars, args, participants, lamports, fee, rent,
                   additional_funds_required, balance, signatures, cli_sent>>

\* Line 55, negated.
has_sufficient_balance(balance_, funds_required_) ==
    ~(balance_ < funds_required_)

\* Lines 53-62: the balance of the fee payer is read and compared.
GetBalance ==
    /\ cli_pc = "get_balance"
    /\ \/ /\ Return(CliErr("rpc"))
          /\ UNCHANGED balance
       \/ /\ balance' = <<lamports>>
          /\ IF has_sufficient_balance(lamports, funds_required[1])
             THEN /\ cli_pc' = "try_sign"
                  /\ UNCHANGED cli_result
             ELSE Return(CliErr("has insufficient balance"))
    /\ UNCHANGED <<classify_vars, config, result, main_vars, submit_vars,
                   cache_vars, args, participants, lamports, fee, rent,
                   additional_funds_required, funds_required, signatures,
                   cli_sent>>

\* Lines 64-67
TrySign ==
    /\ cli_pc = "try_sign"
    /\ \/ /\ Return(CliErr("error: failed to sign transaction"))
          /\ UNCHANGED signatures
       \/ /\ signatures' = signatures + 1
          /\ cli_pc' = "send"
          /\ UNCHANGED cli_result
    /\ UNCHANGED <<classify_vars, config, result, main_vars, submit_vars,
                   cache_vars, args, participants, lamports, fee, rent,
                   additional_funds_required, balance, funds_required,
                   cli_sent>>

\* The message of the command: who pays and what it costs.
message_of(a, additional) ==
    [command |-> a.command, mainnet_identity |-> a.mainnet_identity,
     testnet_identity |-> a.testnet_identity,
     lamports |-> unwrap_or_default(additional)]

\* Lines 68-74: the transaction is handed to the cluster once.  The
\* cluster takes it only from a fee payer that can pay the fee and what the
\* message moves; a message of process_apply then adds the participant.
SendAndConfirm ==
    /\ cli_pc = "send"
    /\ cli_sent' =
          Append(cli_sent, message_of(args, additional_funds_required))
    /\ LET cost == fee + unwrap_or_default(additional_funds_required)
       IN  \/ /\ Return(CliErr("error: send transaction"))
              /\ UNCHANGED <<lamports, participants>>
           \/ /\ lamports >= cost
              /\ lamports' = lamports - cost
              /\ participants' =
                    IF args.command = "apply"
                    THEN participants \cup
                            {[participant |-> "new",
                              mainnet_identity |-> args.mainnet_identity,
                              testnet_identity |-> args.testnet_identity]}
                    ELSE participants
              /\ Return(CliOk)
    /\ UNCHANGED <<classify_vars, config, result, main_vars, submit_vars,
                   cache_vars, args, fee, rent, additional_funds_required,
                   balance, funds_required, signatures>>

CliNext ==
    \/ ProcessApply
    \/ GetRent
    \/ GetRecentBlockhash
    \/ GetBalance
    \/ TrySign
    \/ SendAndConfirm

CliSpec == CliInit /\ [][CliNext]_vars

\* What the message needs: the fee and the additional funds, as numbers.
FundsNeeded == fee + unwrap_or_default(additional_funds_required)

\* The balance the command read is below what the message needs.
BalanceTooLow == balance # <<>> /\ balance[1] < FundsNeeded

Rejected ==
    /\ cli_result = CliErr("has insufficient balance")
    /\ signatures = 0
    /\ cli_sent = <<>>

\* C22: when the balance of the fee payer is below the fee plus the
\* additional funds, send_and_confirm_message returns the
\* insufficient-balance error, and nothing is signed or sent.
C22_InsufficientBalanceRejected == BalanceTooLow => Rejected

\* The balance is too low, the u64 sum wrapped around to a smaller number,
\* and the transaction was signed and handed to the cluster.
C22_SentThoughTooLow ==
    /\ BalanceTooLow
    /\ FundsNeeded >= U64Modulus
    /\ funds_required = <<FundsNeeded % U64Modulus>>
    /\ signatures = 1
    /\ Len(cli_sent) = 1
    /\ cli_result = CliErr("error: send transaction")

\* When the sum fits a u64 the balance check does what is claimed.
C22_RejectedWhenSumFits ==
    BalanceTooLow /\ FundsNeeded < U64Modulus => Rejected

\* The check rejects: the sum fits, with and without additional funds.
C22_RejectedReached ==
    /\ BalanceTooLow
    /\ FundsNeeded < U64Modulus
    /\ additional_funds_required # <<>>
    /\ Rejected

\* The sum did not fit and the command panicked: it returned nothing.
C22_Panicked ==
    /\ cli_pc = "panicked"
    /\ cli_result = <<>>
    /\ lamports < FundsNeeded

\* An identity of the command is registered already, as either identity.
Matching ==
    \E p \in participants :
        /\ p.participant # "new"
        /\ \/ p.mainnet_identity
                 \in {args.mainnet_identity, args.testnet_identity}
           \/ p.testnet_identity
                 \in {args.mainnet_identity, args.testnet_identity}

\* C30: process_apply hands a registration to the cluster only when no
\* participant has one of the two identities and --confirm is given; with
\* a matching participant it goes no further than the lookup and, when the
\* registry answered, fails with 'Registration already exists'; without
\* --confirm it returns Ok; in both cases nothing is sent.
C30_RegistersOnlyNewAndConfirmed ==
    args.command = "apply"
        => /\ cli_sent # <<>>
                 => /\ ~Matching
                    /\ args.confirm
                    /\ Len(cli_sent) = 1
           /\ Matching
                 => /\ cli_pc \in {"process_apply", "returned"}
                    /\ cli_sent = <<>>
                    /\ cli_pc = "returned"
                          => cli_result
                                \in {CliErr("Registration already exists"),
                                     CliErr("rpc")}
           /\ ~Matching /\ ~args.confirm
                 => /\ cli_pc \in {"process_apply", "returned"}
                    /\ cli_sent = <<>>
                    /\ cli_pc = "returned"
                          => cli_result \in {CliOk, CliErr("rpc")}

\* C30 witness: the registry holds two participants, neither with the
\* identity given twice; with --confirm the registration is sent once and
\* the participant is added.
C30_Witness ==
    /\ args.command = "apply"
    /\ args.confirm
    /\ ~Matching
    /\ Cardinality(participants) = 3
    /\ Len(cli_sent) = 1
    /\ cli_sent[1].mainnet_identity = args.mainnet_identity
    /\ cli_result = CliOk

\* The testnet identity of the command is the mainnet identity of a
\* participant: the command fails.
C30_RejectedReached ==
    /\ args.command = "apply"
    /\ args.confirm
    /\ args.mainnet_identity = 4
    /\ args.testnet_identity = 1
    /\ cli_result = CliErr("Registration already exists")
    /\ cli_sent = <<>>

\* No match and no --confirm: Ok and nothing sent.
C30_UnconfirmedReached ==
    /\ args.command = "apply"
    /\ ~args.confirm
    /\ ~Matching
    /\ cli_result = CliOk
    /\ cli_sent = <<>>

====
